---- MODULE Spec2Model ----
(***************************************************************************)
(* A model of the paint-recommendation platform (jeanfcf/tintas-ai-loomi): *)
(*   - the similarity retrieval of the backend (RAGService),              *)
(*   - the in-memory context cache of the AI orchestrator                  *)
(*     (ContextService, driven by PaintAgentSimple.process_query),         *)
(*   - the user and paint CRUD stack of the backend (routes, application   *)
(*     services, repositories, table constraints),                         *)
(*   - authentication and the admin guard of the backend,                  *)
(*   - the chat routes of the backend, with the orchestrator behind them,  *)
(*   - the CSV import of paints and the similarity search over the stored  *)
(*     paints,                                                             *)
(*   - the service tokens between the backend and the orchestrator.        *)
(* Each part has its own specification; the variables of the other parts   *)
(* stay unchanged under it.                                                *)
(***************************************************************************)
EXTENDS Integers, Sequences, FiniteSets, TLC

VARIABLES
    catalog,      \* rows of the paints table as the similarity search sees them
    searchOut,    \* the last search_similar_paints call: inputs and outcome
    now,          \* orchestrator clock, whole seconds (datetime.utcnow())
    ticks,        \* number of clock advances so far
    heap,         \* context dictionaries, by object identity
    cache,        \* ContextService.context_cache: <<key, object>> in insertion order
    req,          \* in-flight process_query calls
    lastGet,      \* what get_or_create_context found and evicted, if it ran last
    users,        \* table users (index = id)
    paints,       \* table paints (index = id)
    resp,         \* the last request answered and its response
    conversations, \* table conversations, in insertion order
    messages,     \* table chat_messages, in insertion order
    chat          \* POST /chat/message requests and how far each has come

searchVars == <<catalog, searchOut>>
ctxVars == <<now, ticks, heap, cache, req, lastGet>>
crudVars == <<users, paints, resp>>
chatVars == <<conversations, messages, chat>>
vars == <<catalog, searchOut, now, ticks, heap, cache, req, lastGet, users, paints, resp,
          conversations, messages, chat>>

None == "None"

Min(a, b) == IF a <= b THEN a ELSE b

(***************************************************************************)
(* Similarity retrieval: src/api/app/services/rag_service.py               *)
(***************************************************************************)

\* Bounds of the search model.
MaxCatalog == 3
MaxLimit == 2

\* Embedding vectors the hosted embedding API can answer with. Their norms are
\* whole numbers, so every cosine below is an exact multiple of 1/100.
\* <<1, 0, 0>> has another dimension (a row embedded under another model size).
Embeddings == {<<1, 0>>, <<3, 4>>, <<-1, 0>>, <<0, 0>>, <<1, 0, 0>>}

\* Similarity thresholds, in hundredths (the route accepts 0.0 .. 1.0).
Thresholds == {0, 60, 100}

\* A NULL embedding column (the API never answers an empty vector).
NoEmbedding == <<>>

\* What _generate_embedding got: a vector, or the API call raised.
ApiOk(v) == [ok |-> TRUE, embedding |-> v]
ApiError == [ok |-> FALSE, embedding |-> <<>>]

RECURSIVE Dot(_, _)
Dot(a, b) == IF a = <<>> \/ b = <<>> THEN 0
             ELSE Head(a) * Head(b) + Dot(Tail(a), Tail(b))

Norm(v) == CHOOSE n \in 0..Dot(v, v) : n * n <= Dot(v, v) /\ (n + 1) * (n + 1) > Dot(v, v)

\* Cosine similarity in hundredths; 0.0 when either norm is zero.
CalculateSimilarity(query_embedding, paint_embedding) ==
    IF Norm(query_embedding) = 0 \/ Norm(paint_embedding) = 0 THEN 0
    ELSE (100 * Dot(query_embedding, paint_embedding))
            \div (Norm(query_embedding) * Norm(paint_embedding))

\* The paints query: rows with a stored embedding (no other filter).
PaintsWithEmbeddings(rows) == SelectSeq(rows, LAMBDA p : p.embedding # NoEmbedding)

\* Mutant of KeepsPaint: the threshold test is dropped.
KeepsPaintAll(p, query_embedding, threshold) ==
    Len(p.embedding) = Len(query_embedding)

\* The loop body's test: dimensions match and similarity >= threshold.
KeepsPaint(p, query_embedding, threshold) ==
    /\ Len(p.embedding) = Len(query_embedding)
    /\ CalculateSimilarity(query_embedding, p.embedding) >= threshold

RECURSIVE Similarities(_, _, _)
Similarities(ps, query_embedding, threshold) ==
    IF ps = <<>> THEN <<>>
    ELSE LET p == Head(ps)
             rest == Similarities(Tail(ps), query_embedding, threshold)
         IN IF KeepsPaint(p, query_embedding, threshold)
            THEN <<[paint |-> p.id,
                    similarity |-> CalculateSimilarity(query_embedding, p.embedding)]>>
                 \o rest
            ELSE rest

\* list.sort(key=similarity, reverse=True): stable, highest first.
RECURSIVE InsertDesc(_, _)
InsertDesc(sorted, x) ==
    IF sorted = <<>> THEN <<x>>
    ELSE IF Head(sorted).similarity >= x.similarity
         THEN <<Head(sorted)>> \o InsertDesc(Tail(sorted), x)
         ELSE <<x>> \o sorted

\* Mutant of SortBySimilarity: reverse=True is dropped (lowest first).
RECURSIVE SortAscending(_)
SortAscending(s) ==
    IF s = <<>> THEN <<>>
    ELSE LET rest == SortAscending(Tail(s))
             lo == SelectSeq(rest, LAMBDA y : y.similarity <= Head(s).similarity)
             hi == SelectSeq(rest, LAMBDA y : y.similarity > Head(s).similarity)
         IN lo \o <<Head(s)>> \o hi

RECURSIVE SortBySimilarity(_)
SortBySimilarity(s) ==
    IF s = <<>> THEN <<>>
    ELSE LET n == Len(s)
         IN InsertDesc(SortBySimilarity(SubSeq(s, 1, n - 1)), s[n])

\* similarities[:limit]
Truncate(s, limit) == SubSeq(s, 1, Min(limit, Len(s)))

FormatResults(items) ==
    [i \in 1..Len(items) |->
        [id |-> items[i].paint, similarity_score |-> items[i].similarity]]

\* The body of the try block: either an exception or the returned list.
SearchBody(rows, api, limit, threshold) ==
    IF ~api.ok THEN [exc |-> TRUE, value |-> <<>>]
    ELSE LET ps == PaintsWithEmbeddings(rows)
         IN IF ps = <<>> THEN [exc |-> FALSE, value |-> <<>>]
            ELSE [exc |-> FALSE,
                  value |-> FormatResults(
                      Truncate(SortBySimilarity(
                          Similarities(ps, api.embedding, threshold)), limit))]

\* Mutant of OnSearchError: the handler lets the exception through.
OnSearchErrorReraise(body) == [raised |-> body.exc, results |-> body.value]

\* except Exception: log and return [].
OnSearchError(body) ==
    IF body.exc THEN [raised |-> FALSE, results |-> <<>>]
    ELSE [raised |-> FALSE, results |-> body.value]

search_similar_paints(rows, api, limit, threshold) ==
    OnSearchError(SearchBody(rows, api, limit, threshold))

\* Any table content of up to MaxCatalog rows: the row at position i has id i,
\* and any embedding (or none) can sit at any position of the query's answer.
Catalogs ==
    UNION {{[i \in 1..n |-> [id |-> i, embedding |-> e[i]]] :
                e \in [1..n -> Embeddings \cup {NoEmbedding}]} : n \in 0..MaxCatalog}

NoSearch == [called |-> FALSE]

\* POST /paints/search/similar with the embedding API answering. The call reads
\* the table and writes nothing, so one call per behaviour covers every call.
SearchSimilar ==
    \E q \in Embeddings, limit \in 1..MaxLimit, threshold \in Thresholds :
        /\ ~searchOut.called
        /\ searchOut' = [called |-> TRUE, api |-> ApiOk(q), limit |-> limit,
                         threshold |-> threshold,
                         out |-> search_similar_paints(catalog, ApiOk(q), limit, threshold)]
        /\ UNCHANGED <<chatVars, catalog, ctxVars, crudVars>>

\* POST /paints/search/similar with the embedding API call failing.
SearchSimilarApiFails ==
    \E limit \in 1..MaxLimit, threshold \in Thresholds :
        /\ ~searchOut.called
        /\ searchOut' = [called |-> TRUE, api |-> ApiError, limit |-> limit,
                         threshold |-> threshold,
                         out |-> search_similar_paints(catalog, ApiError, limit, threshold)]
        /\ UNCHANGED <<chatVars, catalog, ctxVars, crudVars>>


(***************************************************************************)
(* Context cache: src/ai-orchestrator/app/services/context_service.py,     *)
(* driven by PaintAgentSimple.process_query.                               *)
(***************************************************************************)

\* ContextService.max_context_size is 50 in the source; the model keeps the
\* capacity small so that a handful of keys overflows it.
max_context_size == 2
\* ContextService.max_conversation_history is 30 in the source, scaled likewise.
max_conversation_history == 2
\* Bounds: clock advances and chat requests per behaviour.
MaxTicks == 2
NumRequests == 4

session_timeout == 3600
\* timedelta.seconds is the seconds component of the difference, 0 .. 86399.
SecondsPerDay == 86400

\* Context keys (key n stands for "session_<n>" or "conversation_<n>"): one more
\* than the cache may hold.
Keys == 1..(max_context_size + 1)
\* The chat requests of a behaviour; any of them may be in flight together.
Requests == 1..NumRequests
\* How far the clock moves between two calls.
TimeSteps == {1800, 86400}

ObjIds == 1..(Cardinality(Keys) + NumRequests)

CacheKeys(c) == {c[i].key : i \in DOMAIN c}
CacheObj(c, k) == (CHOOSE i \in DOMAIN c : c[i].key = k)
Lookup(c, k) == c[CacheObj(c, k)].obj

\* (now - last_accessed).seconds
DeltaSeconds(t, last_accessed) == (t - last_accessed) % SecondsPerDay

\* _is_context_valid
IsContextValid(ctx, t) == DeltaSeconds(t, ctx.last_accessed) < session_timeout

\* _create_new_context
CreateNewContext(k, t) ==
    [context_key |-> k, last_accessed |-> t, message_count |-> 0,
     conversation_history |-> <<>>]

\* sorted(context_cache.items(), key=last_accessed): stable, oldest first.
RECURSIVE InsertOldestFirst(_, _, _)
InsertOldestFirst(sorted, x, h) ==
    IF sorted = <<>> THEN <<x>>
    ELSE IF h[Head(sorted).obj].last_accessed <= h[x.obj].last_accessed
         THEN <<Head(sorted)>> \o InsertOldestFirst(Tail(sorted), x, h)
         ELSE <<x>> \o sorted

\* Mutant of SortedContexts: newest first.
RECURSIVE SortedContextsNewestFirst(_, _)
SortedContextsNewestFirst(c, h) ==
    IF c = <<>> THEN <<>>
    ELSE LET rest == SortedContextsNewestFirst(Tail(c), h)
             newer == SelectSeq(rest, LAMBDA y :
                          h[y.obj].last_accessed >= h[Head(c).obj].last_accessed)
             older == SelectSeq(rest, LAMBDA y :
                          h[y.obj].last_accessed < h[Head(c).obj].last_accessed)
         IN newer \o <<Head(c)>> \o older

RECURSIVE SortedContexts(_, _)
SortedContexts(c, h) ==
    IF c = <<>> THEN <<>>
    ELSE LET n == Len(c)
         IN InsertOldestFirst(SortedContexts(SubSeq(c, 1, n - 1), h), c[n], h)

\* _cleanup_contexts_if_needed: the keys it deletes.
ContextsToRemove(c, h) ==
    IF Len(c) <= max_context_size THEN {}
    ELSE {SortedContexts(c, h)[i].key : i \in 1..(Len(c) - max_context_size)}

CleanupContextsIfNeeded(c, h) ==
    SelectSeq(c, LAMBDA e : e.key \notin ContextsToRemove(c, h))

\* dict assignment: an existing key keeps its place, a new key goes last.
CachePut(c, k, o) ==
    IF k \in CacheKeys(c)
    THEN [i \in DOMAIN c |-> IF c[i].key = k THEN [key |-> k, obj |-> o] ELSE c[i]]
    ELSE Append(c, [key |-> k, obj |-> o])

CacheDelete(c, k) == SelectSeq(c, LAMBDA e : e.key # k)

\* Objects something still refers to; the others are garbage.
Held(rq) == {rq[r].obj : r \in {x \in Requests : rq[x].pc = "awaiting"}}
Live(c, rq) == {c[i].obj : i \in DOMAIN c} \cup Held(rq)
Collect(h, c, rq) == [o \in Live(c, rq) |-> h[o]]
FreshObj(c, rq) == CHOOSE o \in ObjIds : o \notin Live(c, rq) /\ \A p \in ObjIds : p < o => p \in Live(c, rq)

\* No request has been answered yet. outcome is what the service call of a
\* create or update ended with: "ok", "none" (not found), "ValueError" or
\* "Exception".
NoResp == [op |-> "none", kind |-> "none", id |-> 0, found |-> FALSE, status |-> 0,
           fields |-> {}, total |-> 0, outcome |-> "n/a"]

\* ---- PaintAgentSimple ----

\* _initialize_tools: the names of the tools the agent is built with.
InitializeTools(disable_visual_generation) ==
    IF disable_visual_generation
    THEN {"paint_search"}
    ELSE {"paint_search", "visual_generation"}

\* What the executor hands back: the answer text, the tools of the intermediate
\* steps in call order, and the _last_visual_url the visual tool holds.
ImageUrl == "data:image/png;base64"
ApologyText == "Desculpe, estou com dificuldades tecnicas."
AnswerTexts == {"Ola!", "Recomendo a tinta Suvinil Fosco para a sua sala de estar."}
\* len(response_text)
TextLen(text) == IF text = "Ola!" THEN 4 ELSE 57
ToolRuns == {<<>>, <<"paint_search">>, <<"visual_generation">>,
             <<"paint_search", "visual_generation">>}
Range(s) == {s[i] : i \in DOMAIN s}
AgentResults(tools) ==
    {res \in [output : AnswerTexts, tools_used : ToolRuns, stored_url : {None, ImageUrl}] :
        /\ Range(res.tools_used) \subseteq tools
        /\ res.stored_url # None => "visual_generation" \in Range(res.tools_used)}
PlainAnswer == [output |-> "Ola!", tools_used |-> <<>>, stored_url |-> None]

\* AgentResponse as process_query fills it; confidence is kept in tenths.
\* outcome "returned" is a normal return, anything else the exception raised.
AgentResponse(response, visual_url, confidence, intent, tools_used) ==
    [op |-> "process_query", kind |-> "agent", id |-> 0, found |-> FALSE, status |-> 0,
     fields |-> {}, total |-> 0, outcome |-> "returned",
     response |-> response, visual_url |-> visual_url, confidence |-> confidence,
     intent |-> intent, tools_used |-> tools_used]

\* The response built from the executor's result.
AnswerResponse(res) ==
    LET used == Range(res.tools_used)
        visual_url == IF "visual_generation" \in used THEN res.stored_url ELSE None
        intent == IF "paint_search" \in used THEN "search_paint"
                  ELSE IF "visual_generation" \in used THEN "visual_simulation"
                  ELSE "general_question"
        confidence == IF res.tools_used # <<>> THEN 9
                      ELSE IF TextLen(res.output) < 50 THEN 6 ELSE 8
    IN AgentResponse(res.output, visual_url, confidence, intent, res.tools_used)

\* except Exception at the end of process_query, re-raising instead.
OnProcessQueryErrorReraise(error) ==
    [AgentResponse(None, None, 0, None, <<>>) EXCEPT !.outcome = error]

\* except Exception at the end of process_query: the apology.
OnProcessQueryError(error) ==
    AgentResponse(ApologyText, None, 3, "general_question", <<>>)

NotStarted == [pc |-> "new", key |-> 0, obj |-> 0]
Done(k) == [pc |-> "done", key |-> k, obj |-> 0]
\* Keys some request has asked for so far.
UsedKeys(rq) == {rq[r].key : r \in {x \in Requests : rq[x].pc # "new"}}
NoGet == [called |-> FALSE, key |-> 0, hit |-> FALSE, cached |-> FALSE,
          idle |-> 0, evicted |-> {}]

\* Mutant of LastN: keeps the first entries, conversation_history[:n].
FirstN(h, n) == IF Len(h) > n THEN SubSeq(h, 1, n) ELSE h

\* The last entries: conversation_history[-max_conversation_history:]
LastN(h, n) == IF Len(h) > n THEN SubSeq(h, Len(h) - n + 1, Len(h)) ELSE h

\* conversation_entry: the message is named by the request that sent it, and
\* ordinal stands for the entry's place among the exchanges added to the context.
ConversationEntry(ctx, message) ==
    [message |-> message, ordinal |-> ctx.message_count + 1]

\* update_context applied to a context dictionary.
UpdatedContext(ctx, message, t) ==
    [ctx EXCEPT !.last_accessed = t,
                !.message_count = @ + 1,
                !.conversation_history =
                    LastN(Append(@, ConversationEntry(ctx, message)),
                          max_conversation_history)]

\* process_query up to the await of the agent: get_or_create_context(k).
\* A valid cached context is touched and returned; an expired one is deleted;
\* otherwise a new context is cached and the cache is cleaned up.
Start(r, k) ==
    /\ req[r].pc = "new"
    /\ \A x \in Requests : x < r => req[x].pc # "new"   \* requests are numbered by arrival
    /\ \A j \in Keys : j < k => j \in UsedKeys(req)      \* and keys by first use
    /\ LET cached == k \in CacheKeys(cache)
           old == heap[Lookup(cache, k)]
           hit == cached /\ IsContextValid(old, now)
           o == FreshObj(CacheDelete(cache, k), req)
           inserted == CachePut(CacheDelete(cache, k), k, o)
           h1 == [x \in DOMAIN heap \cup {o} |->
                     IF x = o THEN CreateNewContext(k, now) ELSE heap[x]]
           cleaned == CleanupContextsIfNeeded(inserted, h1)
       IN IF hit
          THEN /\ heap' = [heap EXCEPT ![Lookup(cache, k)].last_accessed = now]
               /\ req' = [req EXCEPT ![r] = [pc |-> "awaiting", key |-> k,
                                             obj |-> Lookup(cache, k)]]
               /\ lastGet' = [called |-> TRUE, key |-> k, hit |-> TRUE, cached |-> TRUE,
                              idle |-> now - old.last_accessed, evicted |-> {}]
               /\ UNCHANGED cache
          ELSE /\ cache' = cleaned
               /\ req' = [req EXCEPT ![r] = [pc |-> "awaiting", key |-> k, obj |-> o]]
               /\ heap' = Collect(h1, cleaned, req')
               /\ lastGet' = [called |-> TRUE, key |-> k, hit |-> FALSE,
                              cached |-> cached,
                              idle |-> IF cached THEN now - old.last_accessed ELSE 0,
                              evicted |-> ContextsToRemove(inserted, h1)]
    /\ resp' = NoResp
    /\ UNCHANGED <<chatVars, now, ticks, users, paints, searchVars>>

\* The agent answered: update_context(full_context, ...) writes the exchange into
\* the dictionary the request holds and puts it back in the cache under its key.
Finish(r, res) ==
    /\ req[r].pc = "awaiting"
    /\ LET o == req[r].obj
           h1 == [heap EXCEPT ![o] = UpdatedContext(heap[o], r, now)]
       IN /\ cache' = CachePut(cache, heap[o].context_key, o)
          /\ req' = [req EXCEPT ![r] = Done(req[r].key)]
          /\ heap' = Collect(h1, cache', req')
    /\ lastGet' = NoGet
    /\ resp' = AnswerResponse(res) @@ [error |-> None]
    /\ UNCHANGED <<chatVars, now, ticks, users, paints, searchVars>>

\* The agent raised: process_query returns the apology without update_context.
Fail(r) ==
    /\ req[r].pc = "awaiting"
    /\ req' = [req EXCEPT ![r] = Done(req[r].key)]
    /\ heap' = Collect(heap, cache, req')
    /\ lastGet' = NoGet
    /\ resp' = OnProcessQueryError("Exception") @@ [error |-> "Exception"]
    /\ UNCHANGED <<chatVars, now, ticks, cache, users, paints, searchVars>>

\* process_query called with both ids or with none: the ValueError is raised
\* before get_or_create_context and answered with the apology.
Reject(r) ==
    /\ req[r].pc = "new"
    /\ \A x \in Requests : x < r => req[x].pc # "new"
    /\ req' = [req EXCEPT ![r] = [pc |-> "done", key |-> 0, obj |-> 0]]
    /\ lastGet' = NoGet
    /\ resp' = OnProcessQueryError("ValueError") @@ [error |-> "ValueError"]
    /\ UNCHANGED <<chatVars, now, ticks, heap, cache, users, paints, searchVars>>

\* Time passes.
Tick(d) ==
    /\ ticks < MaxTicks
    /\ now' = now + d
    /\ ticks' = ticks + 1
    /\ lastGet' = NoGet
    /\ resp' = NoResp
    /\ UNCHANGED <<chatVars, heap, cache, req, users, paints, searchVars>>

CtxInit ==
    /\ now = 0
    /\ ticks = 0
    /\ heap = [o \in {} |-> 0]
    /\ cache = <<>>
    /\ req = [r \in Requests |-> NotStarted]
    /\ lastGet = NoGet

CrudInit ==
    /\ users = <<>>
    /\ paints = <<>>
    /\ resp = NoResp

\* Chat requests are numbered by arrival; none has been sent.
MaxChats == 2
ChatSlots == 1..MaxChats
NotSent == [pc |-> "new"]

ChatInit ==
    /\ conversations = <<>>
    /\ messages = <<>>
    /\ chat = [c \in ChatSlots |-> NotSent]

SearchInit ==
    /\ catalog \in Catalogs
    /\ searchOut = NoSearch
    /\ CtxInit
    /\ CrudInit
    /\ ChatInit

SearchNext == SearchSimilar \/ SearchSimilarApiFails

SpecSearch == SearchInit /\ [][SearchNext]_vars

\* The results of the last call, and the rows that qualify for it: a stored
\* embedding of the query's dimension whose cosine reaches the threshold.
Results == searchOut.out.results
Cosine(i) == CalculateSimilarity(searchOut.api.embedding, catalog[i].embedding)
Qualifying ==
    {i \in DOMAIN catalog :
        /\ catalog[i].embedding # NoEmbedding
        /\ Len(catalog[i].embedding) = Len(searchOut.api.embedding)
        /\ Cosine(i) >= searchOut.threshold}
ResultIds == {Results[k].id : k \in DOMAIN Results}

\* C1: search_similar_paints returns only paints whose cosine similarity to the
\* query embedding is >= threshold: every returned item is a row of the table,
\* its similarity_score is that row's cosine, and it is not below the threshold.
C1_OnlyAboveThreshold ==
    searchOut.called =>
        \A k \in DOMAIN Results :
            /\ Results[k].id \in DOMAIN catalog
            /\ catalog[Results[k].id].embedding # NoEmbedding
            /\ Results[k].similarity_score = Cosine(Results[k].id)
            /\ Results[k].similarity_score >= searchOut.threshold

\* C1 witness: a search that returned a paint and discarded another one whose
\* similarity lay below a positive threshold.
C1_Witness ==
    /\ searchOut.called
    /\ searchOut.threshold > 0
    /\ Results # <<>>
    /\ \E i \in DOMAIN catalog :
          /\ catalog[i].embedding # NoEmbedding
          /\ Len(catalog[i].embedding) = Len(searchOut.api.embedding)
          /\ Cosine(i) < searchOut.threshold

\* C2: the result is the first min(limit, n) of the n qualifying paints ordered
\* by non-increasing similarity: its length is min(limit, n), it lists distinct
\* qualifying paints, consecutive scores do not increase, and no qualifying paint
\* left out has a strictly higher similarity than one that is returned.
C2_TopByScore ==
    (searchOut.called /\ searchOut.api.ok) =>
        /\ Len(Results) = Min(searchOut.limit, Cardinality(Qualifying))
        /\ Len(Results) <= searchOut.limit
        /\ ResultIds \subseteq Qualifying
        /\ Cardinality(ResultIds) = Len(Results)
        /\ \A k \in DOMAIN Results :
              k > 1 => Results[k - 1].similarity_score >= Results[k].similarity_score
        /\ \A i \in Qualifying \ ResultIds :
              \A k \in DOMAIN Results : Cosine(i) <= Results[k].similarity_score

\* C2 witness: more paints qualify than the limit allows, stored in ascending
\* order of similarity, and the best one was returned first.
C2_Witness ==
    /\ searchOut.called /\ searchOut.api.ok
    /\ Cardinality(Qualifying) > searchOut.limit
    /\ Len(Results) = searchOut.limit
    /\ \E i, j \in Qualifying :
          /\ i < j
          /\ Cosine(i) < Cosine(j)
          /\ Results[1].id = j
          /\ i \notin ResultIds

\* C3: search_similar_paints never raises to its caller: when no paint has a
\* stored embedding, or when the embedding-API call fails, it returns [].
C3_NeverRaises ==
    searchOut.called =>
        /\ ~searchOut.out.raised
        /\ (~searchOut.api.ok \/ PaintsWithEmbeddings(catalog) = <<>>) => Results = <<>>

\* C3 witness: the embedding API failed while the table holds embedded paints,
\* and the call returned the empty list.
C3_Witness ==
    /\ searchOut.called
    /\ ~searchOut.api.ok
    /\ PaintsWithEmbeddings(catalog) # <<>>
    /\ ~searchOut.out.raised
    /\ Results = <<>>

CtxFullInit ==
    /\ CtxInit
    /\ CrudInit
    /\ ChatInit
    /\ catalog = <<>>
    /\ searchOut = NoSearch

CtxNext ==
    \/ \E r \in Requests, k \in Keys : Start(r, k)
    \/ \E r \in Requests : Finish(r, PlainAnswer)
    \/ \E r \in Requests : Fail(r)
    \/ \E d \in TimeSteps : Tick(d)

SpecCtx == CtxFullInit /\ [][CtxNext]_vars

\* C4: the number of cached contexts is at most max_context_size in every
\* reachable state, under any interleaving of chat requests.
C4_CacheBounded == Len(cache) <= max_context_size

\* The step is the get_or_create_context call of request r for key k.
IsStart(r, k) == req[r].pc = "new" /\ req'[r].pc = "awaiting" /\ req'[r].key = k

\* The cache as it stands when the new context for k has been inserted and
\* before the cleanup runs, as <<key, last_accessed>> pairs read in the state
\* before the call (the new context carries the current time).
OthersBefore(k) == CacheKeys(cache) \ {k}
LastAccessedAtInsert(j, k) == IF j = k THEN now ELSE heap[Lookup(cache, j)].last_accessed
RemovedBy(k) == (OthersBefore(k) \cup {k}) \ CacheKeys(cache')

\* C5: when inserting a new context makes the cache exceed its capacity, the
\* contexts removed are exactly the ones with the oldest last_accessed (as many
\* as needed to get back to capacity), and the one just inserted is not removed.
C5_EvictsOldest ==
    [][\A r \in Requests, k \in Keys :
        (IsStart(r, k) /\ ~lastGet'.hit) =>
            /\ k \in CacheKeys(cache')
            /\ Cardinality(OthersBefore(k)) + 1 <= max_context_size => RemovedBy(k) = {}
            /\ Cardinality(OthersBefore(k)) + 1 > max_context_size =>
                  /\ Len(cache') = max_context_size
                  /\ Cardinality(RemovedBy(k)) =
                        Cardinality(OthersBefore(k)) + 1 - max_context_size
                  /\ \A e \in RemovedBy(k) : \A j \in CacheKeys(cache') :
                        LastAccessedAtInsert(e, k) <= LastAccessedAtInsert(j, k)]_vars

\* C5 witness: an insertion overflowed the cache and the cleanup removed a context
\* that was older than one it kept beside the new one.
C5_Witness ==
    /\ lastGet.called /\ ~lastGet.hit
    /\ lastGet.evicted # {}
    /\ lastGet.key \in CacheKeys(cache)
    /\ \E j \in CacheKeys(cache) :
          /\ j # lastGet.key
          /\ heap[Lookup(cache, j)].last_accessed > 0
          /\ heap[Lookup(cache, j)].last_accessed < now

\* C6: get_or_create_context never returns a cached context whose last access
\* lies session_timeout or more in the past.
C6_NoStaleHit == (lastGet.called /\ lastGet.hit) => lastGet.idle < session_timeout

\* C21: the history of a context is bounded and recent. After any number of
\* update_context calls on a context dictionary, conversation_history holds at
\* most max_conversation_history entries, and they are the most recent exchanges
\* added to it, in the order they were added.
C21_HistoryBounded ==
    \A o \in DOMAIN heap :
        LET h == heap[o].conversation_history
            n == heap[o].message_count
        IN /\ Len(h) <= max_conversation_history
           /\ Len(h) = Min(n, max_conversation_history)
           /\ \A i \in 1..Len(h) : h[i].ordinal = n - Len(h) + i

\* C21 witness: a cached context has taken more exchanges than the history may
\* hold, so the oldest ones were dropped.
C21_Witness ==
    \E i \in DOMAIN cache :
        /\ heap[cache[i].obj].message_count > max_conversation_history
        /\ Len(heap[cache[i].obj].conversation_history) = max_conversation_history

\* The requests whose exchanges the context cached under key k holds.
CachedMessages(c, h, k) ==
    IF k \in CacheKeys(c)
    THEN {h[Lookup(c, k)].conversation_history[i].message :
             i \in DOMAIN h[Lookup(c, k)].conversation_history}
    ELSE {}

\* Request r2 completes with update_context in this step.
IsFinish(r2) ==
    /\ req[r2].pc = "awaiting" /\ req'[r2].pc = "done"
    /\ resp'.op = "process_query" /\ resp'.error = None

\* C22: no completed exchange is lost under concurrency. When request r2
\* completes on a key whose cached context holds the exchange of another request
\* r1, the cached context for the key afterwards holds the exchanges of both,
\* whatever evicted or recreated the key while the two were in flight (an
\* exchange may only leave through the history cap).
C22_NoLostExchange ==
    [][\A r1, r2 \in Requests :
        (/\ r1 # r2
         /\ IsFinish(r2)
         /\ req[r1].pc = "done" /\ req[r1].key = req[r2].key
         /\ r1 \in CachedMessages(cache, heap, req[r2].key)) =>
            \/ {r1, r2} \subseteq CachedMessages(cache', heap', req[r2].key)
            \/ /\ r2 \in CachedMessages(cache', heap', req[r2].key)
               /\ Cardinality(CachedMessages(cache', heap', req[r2].key)) =
                      max_conversation_history]_vars

\* process_query calls one at a time or interleaved, with every result the
\* executor can hand back and every failure of the try block.
AgentNext ==
    \/ \E r \in Requests, k \in Keys : Start(r, k)
    \/ \E r \in Requests : \E res \in AgentResults(InitializeTools(FALSE)) : Finish(r, res)
    \/ \E r \in Requests : Fail(r)
    \/ \E r \in Requests : Reject(r)

SpecAgent == CtxFullInit /\ [][AgentNext]_vars

MaxUsers == 2
MaxPaints == 2
MaxCsvRows == 2
\* Bound: fields a partial PUT /users body carries.
MaxUpdateFields == 1

\* A field the request body does not carry (pydantic: not in model_fields_set).
Unset == "Unset"
\* The value of deleted_at after a soft delete (datetime.utcnow()).
DeletedAt == "utcnow"
\* What .first() answers when no row matches.
NoRow == [id |-> 0]

Emails == {"ana@tintas.io", "bia@tintas.io"}
Usernames == {"ana", "bia"}
\* A username UsernameValidator rejects (shorter than 3 characters).
InvalidUsername == "ab"
FullNames == {"Ana Lima"}
Passwords == {"senha-um1", "senha-dois2"}
Roles == {"user"}
Statuses == {"active", "inactive"}
PaintNames == {"Suvinil Fosco", "Suvinil Brilho"}
Colors == {"branco", "azul"}

\* AuthService.hash_password
Hash(password) ==
    CASE password = "senha-um1" -> "$pbkdf2-sha256$senha-um1"
      [] password = "senha-dois2" -> "$pbkdf2-sha256$senha-dois2"
      [] password = "Admin@2024!" -> "$pbkdf2-sha256$Admin@2024!"

\* Request bodies.
UserCreates ==
    [email : Emails, username : Usernames \cup {InvalidUsername}, password : Passwords,
     full_name : FullNames, role : Roles]
PaintCreates == [name : PaintNames, color : Colors]
PaintUpdates == [name : PaintNames \cup {Unset}, color : Colors \cup {Unset}]

UserUpdateFields == {"email", "username", "full_name", "password", "role", "status"}
PaintUpdateFields == {"name", "color"}

\* Reading an attribute of a request model: an unset Optional field reads None.
Val(x) == IF x = Unset THEN None ELSE x
\* model.dict(exclude_unset=True): the names of the fields that were set.
SetFields(data, names) == {f \in names : data[f] # Unset}

\* PUT /users bodies: those that carry up to MaxUpdateFields fields, and those
\* that carry every field.
UserUpdates ==
    {d \in [email : Emails \cup {Unset},
            username : Usernames \cup {InvalidUsername, Unset},
            full_name : FullNames \cup {Unset}, password : Passwords \cup {Unset},
            role : Roles \cup {Unset}, status : Statuses \cup {Unset}] :
        \/ Cardinality(SetFields(d, UserUpdateFields)) <= MaxUpdateFields
        \/ SetFields(d, UserUpdateFields) = UserUpdateFields}

\* first() of a query.
First(rows) == IF rows = <<>> THEN NoRow ELSE Head(rows)

\* ---- table constraints (models.py) ----

\* Mutant of UsersConstraints: the unique indexes are missing.
UsersNoUniqueIndex(t) ==
    \A i \in DOMAIN t :
        None \notin {t[i].email, t[i].username, t[i].full_name,
                     t[i].hashed_password, t[i].role, t[i].status}

\* Mutant of UsersConstraints: the columns accept NULL.
UsersNullable(t) ==
    \A i, j \in DOMAIN t :
        (i # j /\ t[i].deleted_at = None /\ t[j].deleted_at = None) =>
            (t[i].email # t[j].email /\ t[i].username # t[j].username)

\* NOT NULL columns and the unique partial indexes ix_users_email_active,
\* ix_users_username_active (WHERE deleted_at IS NULL).
UsersConstraints(t) ==
    /\ \A i \in DOMAIN t :
          None \notin {t[i].email, t[i].username, t[i].full_name,
                       t[i].hashed_password, t[i].role, t[i].status}
    /\ \A i, j \in DOMAIN t :
          (i # j /\ t[i].deleted_at = None /\ t[j].deleted_at = None) =>
              (t[i].email # t[j].email /\ t[i].username # t[j].username)

\* NOT NULL columns and the unique partial index ix_paints_name_active.
PaintsConstraints(t) ==
    /\ \A i \in DOMAIN t : None \notin {t[i].name, t[i].color}
    /\ \A i, j \in DOMAIN t :
          (i # j /\ t[i].deleted_at = None /\ t[j].deleted_at = None) =>
              t[i].name # t[j].name

\* ---- UserRepository ----

\* Mutant of GetActiveUserQuery: the deleted_at filter is missing.
GetAllUserRows(t) == t

\* _get_active_user_query
GetActiveUserQuery(t) == SelectSeq(t, LAMBDA u : u.deleted_at = None)

UserGetById(t, user_id) ==
    First(SelectSeq(GetActiveUserQuery(t), LAMBDA u : u.id = user_id))
UserGetByEmail(t, email) ==
    First(SelectSeq(GetActiveUserQuery(t), LAMBDA u : u.email = email))
UserGetByUsername(t, username) ==
    First(SelectSeq(GetActiveUserQuery(t), LAMBDA u : u.username = username))
\* get_all and count_all with empty filters and a page that holds every row.
UserGetAll(t) == GetActiveUserQuery(t)
UserCountAll(t) == Len(GetActiveUserQuery(t))
UserExistsActiveByEmail(t, email) == UserGetByEmail(t, email) # NoRow
UserExistsActiveByUsername(t, username) == UserGetByUsername(t, username) # NoRow

\* create: INSERT and commit; a constraint violation rolls back and raises.
UserRepoCreate(t, user_data, hashed_password) ==
    LET row == [id |-> Len(t) + 1, email |-> user_data.email,
                username |-> user_data.username, full_name |-> user_data.full_name,
                hashed_password |-> hashed_password, role |-> user_data.role,
                status |-> "active", last_login |-> None, deleted_at |-> None]
    IN IF UsersConstraints(Append(t, row))
       THEN [outcome |-> "ok", table |-> Append(t, row)]
       ELSE [outcome |-> "Exception", table |-> t]

\* The row after setattr for every field of dict(exclude_unset=True); the field
\* password is written to the column hashed_password.
UserWithUpdate(row, data) ==
    [row EXCEPT !.email = IF data.email = Unset THEN @ ELSE data.email,
                !.username = IF data.username = Unset THEN @ ELSE data.username,
                !.full_name = IF data.full_name = Unset THEN @ ELSE data.full_name,
                !.hashed_password = IF data.password = Unset THEN @ ELSE data.password,
                !.role = IF data.role = Unset THEN @ ELSE data.role,
                !.status = IF data.status = Unset THEN @ ELSE data.status]

\* update: None when no active row has the id; a failing commit raises and the
\* session is closed without the change.
UserRepoUpdate(t, user_id, data) ==
    IF UserGetById(t, user_id) = NoRow THEN [outcome |-> "none", table |-> t]
    ELSE LET t2 == [i \in DOMAIN t |->
                       IF t[i].id = user_id THEN UserWithUpdate(t[i], data) ELSE t[i]]
         IN IF UsersConstraints(t2)
            THEN [outcome |-> "ok", table |-> t2]
            ELSE [outcome |-> "Exception", table |-> t]

\* delete: False when no active row has the id, else deleted_at is set.
UserRepoDelete(t, user_id) ==
    IF UserGetById(t, user_id) = NoRow THEN [outcome |-> "none", table |-> t]
    ELSE [outcome |-> "ok",
          table |-> [i \in DOMAIN t |->
                        IF t[i].id = user_id
                        THEN [t[i] EXCEPT !.deleted_at = DeletedAt] ELSE t[i]]]

\* ---- UserService ----

\* UserValidator.validate_create_data / validate_update_data on the bodies above.
UserDataInvalid(data) == data.username = InvalidUsername

CreateUserService(t, user_data) ==
    IF UserDataInvalid(user_data) THEN [outcome |-> "ValueError", table |-> t]
    ELSE IF UserExistsActiveByEmail(t, user_data.email)
         THEN [outcome |-> "ValueError", table |-> t]
    ELSE IF UserExistsActiveByUsername(t, user_data.username)
         THEN [outcome |-> "ValueError", table |-> t]
    ELSE UserRepoCreate(t, user_data, Hash(user_data.password))

\* With a password the service builds a new UserUpdate from the attributes of the
\* request, so every field is set: the omitted ones to None.
UserUpdateWithPassword(user_data) ==
    [email |-> Val(user_data.email), username |-> Val(user_data.username),
     full_name |-> Val(user_data.full_name), role |-> Val(user_data.role),
     status |-> Val(user_data.status), password |-> Hash(user_data.password)]

UpdateUserService(t, user_id, user_data) ==
    IF UserDataInvalid(user_data) THEN [outcome |-> "ValueError", table |-> t]
    ELSE IF user_data.password # Unset
         THEN UserRepoUpdate(t, user_id, UserUpdateWithPassword(user_data))
         ELSE UserRepoUpdate(t, user_id, user_data)

\* ---- routes of /users ----

Response(op, kind, id, found, status, fields) ==
    [op |-> op, kind |-> kind, id |-> id, found |-> found, status |-> status,
     fields |-> fields, total |-> 0, outcome |-> "n/a"]

\* POST /users/
CreateUser(user_data) ==
    /\ paints = <<>>
    /\ Len(users) < MaxUsers
    /\ LET r == CreateUserService(users, user_data)
       IN /\ users' = r.table
          /\ resp' = [Response("create", "user", 0, FALSE,
                               CASE r.outcome = "ok" -> 201
                                 [] r.outcome = "ValueError" -> 400
                                 [] OTHER -> 500, {})
                          EXCEPT !.outcome = r.outcome]
    /\ UNCHANGED <<chatVars, paints, searchVars, ctxVars>>

\* GET /users/{user_id}
GetUser(user_id) ==
    /\ paints = <<>>
    /\ resp' = Response("get", "user", user_id, UserGetById(users, user_id) # NoRow,
                        IF UserGetById(users, user_id) # NoRow THEN 200 ELSE 404, {})
    /\ UNCHANGED <<chatVars, users, paints, searchVars, ctxVars>>

\* PUT /users/{user_id}: only HTTPException passes through, anything else is 500.
UpdateUser(user_id, user_data) ==
    /\ paints = <<>>
    /\ LET r == UpdateUserService(users, user_id, user_data)
       IN /\ users' = r.table
          /\ resp' = [Response("update", "user", user_id,
                               UserGetById(users, user_id) # NoRow,
                               CASE r.outcome = "ok" -> 200
                                 [] r.outcome = "none" -> 404
                                 [] OTHER -> 500,
                               SetFields(user_data, UserUpdateFields))
                          EXCEPT !.outcome = r.outcome]
    /\ UNCHANGED <<chatVars, paints, searchVars, ctxVars>>

\* DELETE /users/{user_id}
DeleteUser(user_id) ==
    /\ paints = <<>>
    /\ LET r == UserRepoDelete(users, user_id)
       IN /\ users' = r.table
          /\ resp' = Response("delete", "user", user_id,
                              UserGetById(users, user_id) # NoRow,
                              IF r.outcome = "ok" THEN 204 ELSE 404, {})
    /\ UNCHANGED <<chatVars, paints, searchVars, ctxVars>>

\* GET /users/: the page of active users and their count.
ListUsers ==
    /\ paints = <<>>
    /\ resp' = [Response("list", "user", 0, FALSE, 200, {})
                   EXCEPT !.total = UserCountAll(users)]
    /\ UNCHANGED <<chatVars, users, paints, searchVars, ctxVars>>

\* ---- PaintRepository ----

\* _get_active_paint_query
GetActivePaintQuery(t) == SelectSeq(t, LAMBDA p : p.deleted_at = None)

PaintGetById(t, paint_id) ==
    First(SelectSeq(GetActivePaintQuery(t), LAMBDA p : p.id = paint_id))
PaintGetByName(t, name) ==
    First(SelectSeq(GetActivePaintQuery(t), LAMBDA p : p.name = name))
PaintGetAll(t) == GetActivePaintQuery(t)
PaintCountAll(t) == Len(GetActivePaintQuery(t))
PaintExistsActiveByName(t, name) == PaintGetByName(t, name) # NoRow

PaintRepoCreate(t, paint_data) ==
    LET row == [id |-> Len(t) + 1, name |-> paint_data.name, color |-> paint_data.color,
                embedding |-> NoEmbedding, deleted_at |-> None]
    IN IF PaintsConstraints(Append(t, row))
       THEN [outcome |-> "ok", table |-> Append(t, row)]
       ELSE [outcome |-> "Exception", table |-> t]

PaintWithUpdate(row, data) ==
    [row EXCEPT !.name = IF data.name = Unset THEN @ ELSE data.name,
                !.color = IF data.color = Unset THEN @ ELSE data.color]

PaintRepoUpdate(t, paint_id, data) ==
    IF PaintGetById(t, paint_id) = NoRow THEN [outcome |-> "none", table |-> t]
    ELSE LET t2 == [i \in DOMAIN t |->
                       IF t[i].id = paint_id THEN PaintWithUpdate(t[i], data) ELSE t[i]]
         IN IF PaintsConstraints(t2)
            THEN [outcome |-> "ok", table |-> t2]
            ELSE [outcome |-> "Exception", table |-> t]

PaintRepoDelete(t, paint_id) ==
    IF PaintGetById(t, paint_id) = NoRow THEN [outcome |-> "none", table |-> t]
    ELSE [outcome |-> "ok",
          table |-> [i \in DOMAIN t |->
                        IF t[i].id = paint_id
                        THEN [t[i] EXCEPT !.deleted_at = DeletedAt] ELSE t[i]]]

\* ---- PaintService ----

CreatePaintService(t, paint_data) ==
    IF PaintExistsActiveByName(t, paint_data.name)
    THEN [outcome |-> "ValueError", table |-> t]
    ELSE PaintRepoCreate(t, paint_data)

\* update_paint: when the request carries a name it is compared with
\* get_by_id(paint_id).name, which raises AttributeError when get_by_id is None;
\* the service turns that into Exception.
UpdatePaintService(t, paint_id, paint_data) ==
    IF paint_data.name # Unset /\ PaintGetById(t, paint_id) = NoRow
    THEN [outcome |-> "Exception", table |-> t]
    ELSE IF /\ paint_data.name # Unset
            /\ paint_data.name # PaintGetById(t, paint_id).name
            /\ PaintExistsActiveByName(t, paint_data.name)
         THEN [outcome |-> "ValueError", table |-> t]
    ELSE PaintRepoUpdate(t, paint_id, paint_data)

\* ---- embeddings of stored paints (RAGService.generate_and_store_embedding) ----

\* The vector the embedding API answers for the text of a paint.
PaintEmbedding(p) == IF p.color = "branco" THEN <<1, 0>> ELSE <<3, 4>>

\* The row is looked up by id alone; a missing row returns silently, a failing
\* API call raises after rollback.
GenerateAndStoreEmbedding(t, paint_id, api_ok) ==
    IF \A i \in DOMAIN t : t[i].id # paint_id THEN [outcome |-> "ok", table |-> t]
    ELSE IF ~api_ok THEN [outcome |-> "Exception", table |-> t]
    ELSE [outcome |-> "ok",
          table |-> [i \in DOMAIN t |->
                        IF t[i].id = paint_id
                        THEN [t[i] EXCEPT !.embedding = PaintEmbedding(t[i])]
                        ELSE t[i]]]

\* ---- routes of /paints ----

\* POST /paints/: the row is committed, then its embedding is generated.
\* embedding_calls of the response names the paints the handler called the
\* embedding API for before it answered.
CreatePaint(paint_data, api_ok) ==
    /\ users = <<>>
    /\ Len(paints) < MaxPaints
    /\ LET r == CreatePaintService(paints, paint_data)
           e == GenerateAndStoreEmbedding(r.table, Len(r.table), api_ok)
       IN IF r.outcome = "ok"
          THEN /\ paints' = e.table
               /\ resp' = [Response("create", "paint", 0, FALSE,
                                    IF e.outcome = "ok" THEN 201 ELSE 500, {})
                               EXCEPT !.outcome = e.outcome]
                          @@ [embedding_calls |-> {Len(r.table)}]
          ELSE /\ paints' = r.table
               /\ resp' = [Response("create", "paint", 0, FALSE,
                                    IF r.outcome = "ValueError" THEN 400 ELSE 500, {})
                               EXCEPT !.outcome = r.outcome]
                          @@ [embedding_calls |-> {}]
    /\ UNCHANGED <<chatVars, users, searchVars, ctxVars>>

\* GET /paints/{paint_id}
GetPaint(paint_id) ==
    /\ users = <<>>
    /\ resp' = Response("get", "paint", paint_id, PaintGetById(paints, paint_id) # NoRow,
                        IF PaintGetById(paints, paint_id) # NoRow THEN 200 ELSE 404, {})
    /\ UNCHANGED <<chatVars, users, paints, searchVars, ctxVars>>

\* GET /paints/
ListPaints ==
    /\ users = <<>>
    /\ resp' = [Response("list", "paint", 0, FALSE, 200, {})
                   EXCEPT !.total = PaintCountAll(paints)]
    /\ UNCHANGED <<chatVars, users, paints, searchVars, ctxVars>>

\* PUT /paints/{paint_id}: the update is committed, then the embedding regenerated.
UpdatePaint(paint_id, paint_data, api_ok) ==
    /\ users = <<>>
    /\ LET r == UpdatePaintService(paints, paint_id, paint_data)
           e == GenerateAndStoreEmbedding(r.table, paint_id, api_ok)
           found == PaintGetById(paints, paint_id) # NoRow
           fields == SetFields(paint_data, PaintUpdateFields)
       IN IF r.outcome = "ok"
          THEN /\ paints' = e.table
               /\ resp' = [Response("update", "paint", paint_id, found,
                                    IF e.outcome = "ok" THEN 200 ELSE 500, fields)
                               EXCEPT !.outcome = e.outcome]
                          @@ [embedding_calls |-> {paint_id}]
          ELSE /\ paints' = r.table
               /\ resp' = [Response("update", "paint", paint_id, found,
                                    CASE r.outcome = "none" -> 404
                                      [] r.outcome = "ValueError" -> 400
                                      [] OTHER -> 500, fields)
                               EXCEPT !.outcome = r.outcome]
                          @@ [embedding_calls |-> {}]
    /\ UNCHANGED <<chatVars, users, searchVars, ctxVars>>

\* DELETE /paints/{paint_id}
DeletePaint(paint_id) ==
    /\ users = <<>>
    /\ LET r == PaintRepoDelete(paints, paint_id)
       IN /\ paints' = r.table
          /\ resp' = Response("delete", "paint", paint_id,
                              PaintGetById(paints, paint_id) # NoRow,
                              IF r.outcome = "ok" THEN 204 ELSE 404, {})
    /\ UNCHANGED <<chatVars, users, searchVars, ctxVars>>

\* ---- CSVImportService ----

\* CSV files: up to MaxCsvRows valid rows.
CsvFiles == UNION {[1..n -> PaintCreates] : n \in 1..MaxCsvRows}

\* One row of _process_csv_rows. An existing active paint of that name is skipped,
\* updated without its name (PaintUpdate(color=...)) or reported, as the flags
\* say; the embedding of an updated paint stays as it is, since asyncio.run
\* raises inside the running event loop and the error is only logged. Otherwise
\* the paint is created and embedded, an embedding failure being logged.
ProcessCsvRow(t, row, skip_duplicates, update_existing, api_ok) ==
    LET existing == PaintGetByName(t, row.name)
    IN IF existing # NoRow
       THEN IF skip_duplicates THEN t
            ELSE IF update_existing
                 THEN UpdatePaintService(t, existing.id,
                                         [name |-> Unset, color |-> row.color]).table
                 ELSE t
       ELSE LET r == CreatePaintService(t, row)
            IN IF r.outcome = "ok"
               THEN GenerateAndStoreEmbedding(r.table, Len(r.table), api_ok).table
               ELSE r.table

RECURSIVE ProcessCsvRows(_, _, _, _, _)
ProcessCsvRows(t, rows, skip_duplicates, update_existing, api_ok) ==
    IF rows = <<>> THEN t
    ELSE ProcessCsvRows(
             ProcessCsvRow(t, Head(rows), skip_duplicates, update_existing, api_ok),
             Tail(rows), skip_duplicates, update_existing, api_ok)

\* POST /paints/import-csv
ImportCsv(rows, skip_duplicates, update_existing, api_ok) ==
    /\ users = <<>>
    /\ Len(paints) + Len(rows) <= MaxPaints
    /\ paints' = ProcessCsvRows(paints, rows, skip_duplicates, update_existing, api_ok)
    /\ resp' = [Response("import", "paint", 0, FALSE, 200, {})
                   EXCEPT !.total = Len(rows)]
    /\ UNCHANGED <<chatVars, users, searchVars, ctxVars>>

UserIds == 1..(MaxUsers + 1)
PaintIds == 1..(MaxPaints + 1)

CrudFullInit ==
    /\ CrudInit
    /\ CtxInit
    /\ ChatInit
    /\ catalog = <<>>
    /\ searchOut = NoSearch

CrudNext ==
    \/ \E user_data \in UserCreates : CreateUser(user_data)
    \/ \E user_id \in UserIds : GetUser(user_id)
    \/ ListUsers
    \/ \E user_id \in UserIds, user_data \in UserUpdates : UpdateUser(user_id, user_data)
    \/ \E user_id \in UserIds : DeleteUser(user_id)
    \/ \E paint_data \in PaintCreates, api_ok \in BOOLEAN : CreatePaint(paint_data, api_ok)
    \/ \E paint_id \in PaintIds : GetPaint(paint_id)
    \/ ListPaints
    \/ \E paint_id \in PaintIds, paint_data \in PaintUpdates, api_ok \in BOOLEAN :
          UpdatePaint(paint_id, paint_data, api_ok)
    \/ \E paint_id \in PaintIds : DeletePaint(paint_id)
    \/ \E rows \in CsvFiles, skip_duplicates \in BOOLEAN, update_existing \in BOOLEAN,
          api_ok \in BOOLEAN :
          ImportCsv(rows, skip_duplicates, update_existing, api_ok)

SpecCrud == CrudFullInit /\ [][CrudNext]_vars

\* The table with the soft-deleted rows physically removed, and the ids of the
\* soft-deleted rows.
Purged(t) == SelectSeq(t, LAMBDA r : r.deleted_at = None)
DeletedIds(t) == {t[i].id : i \in {j \in DOMAIN t : t[j].deleted_at # None}}
NotFound(t) == [outcome |-> "none", table |-> t]

\* C7: deletion is a soft delete. After a successful delete the row is still in
\* the table with deleted_at set; get_by_id of a deleted id finds nothing;
\* get_by_email, get_by_username, get_by_name, get_all and count_all answer what
\* they would answer if the deleted rows were not in the table; a further delete
\* or an update (with any body) of a deleted id reports not found and leaves the
\* table as it is.
C7_SoftDelete ==
    /\ (resp.op = "delete" /\ resp.status = 204 /\ resp.kind = "user") =>
           \E i \in DOMAIN users : users[i].id = resp.id /\ users[i].deleted_at # None
    /\ (resp.op = "delete" /\ resp.status = 204 /\ resp.kind = "paint") =>
           \E i \in DOMAIN paints : paints[i].id = resp.id /\ paints[i].deleted_at # None
    /\ \A id \in DeletedIds(users) :
          /\ UserGetById(users, id) = NoRow
          /\ UserRepoDelete(users, id) = NotFound(users)
          /\ \A d \in UserUpdates : UserRepoUpdate(users, id, d) = NotFound(users)
    /\ \A e \in Emails : UserGetByEmail(users, e) = UserGetByEmail(Purged(users), e)
    /\ \A u \in Usernames :
          UserGetByUsername(users, u) = UserGetByUsername(Purged(users), u)
    /\ UserGetAll(users) = Purged(users)
    /\ UserCountAll(users) = Len(Purged(users))
    /\ \A id \in DeletedIds(paints) :
          /\ PaintGetById(paints, id) = NoRow
          /\ PaintRepoDelete(paints, id) = NotFound(paints)
          /\ \A d \in PaintUpdates : PaintRepoUpdate(paints, id, d) = NotFound(paints)
    /\ \A n \in PaintNames : PaintGetByName(paints, n) = PaintGetByName(Purged(paints), n)
    /\ PaintGetAll(paints) = Purged(paints)
    /\ PaintCountAll(paints) = Len(Purged(paints))

\* C7 witness: DELETE /users/{id} for a user that was soft-deleted before was
\* answered not found, while another user is still active.
C7_Witness ==
    /\ resp.op = "delete" /\ resp.kind = "user" /\ resp.status = 404
    /\ resp.id \in DeletedIds(users)
    /\ Purged(users) # <<>>

\* C8: no two non-deleted users share an email or a username, and no two
\* non-deleted paints share a name, in every state reachable by create, update,
\* soft delete and CSV import.
C8_UniqueAmongActive ==
    /\ \A i, j \in DOMAIN users :
          (i # j /\ users[i].deleted_at = None /\ users[j].deleted_at = None) =>
              /\ users[i].email # users[j].email
              /\ users[i].username # users[j].username
    /\ \A i, j \in DOMAIN paints :
          (i # j /\ paints[i].deleted_at = None /\ paints[j].deleted_at = None) =>
              paints[i].name # paints[j].name

\* C8 witness: with two active users in the table, a PUT /users/{id} carrying
\* only a (valid) email was refused, which only happens when the email is taken.
C8_Witness ==
    /\ resp.op = "update" /\ resp.kind = "user" /\ resp.found
    /\ resp.fields = {"email"}
    /\ resp.status = 500
    /\ Len(Purged(users)) = 2

\* The columns a PUT may write, and the request field that writes each.
UserColumns == {"id", "email", "username", "full_name", "hashed_password", "role",
                "status", "last_login", "deleted_at"}
PaintColumns == {"id", "name", "color", "deleted_at"}
RequestField(column) == IF column = "hashed_password" THEN "password" ELSE column

\* C9: updates are partial. A PUT adds and removes no row, and a column of a
\* stored user or paint differs after the request only if the row is the one
\* addressed and the request body carries the field of that column; every other
\* column keeps its value, also when the body carries a password.
C9_PartialUpdate ==
    [][resp'.op = "update" =>
          /\ Len(users') = Len(users)
          /\ Len(paints') = Len(paints)
          /\ \A i \in DOMAIN users : \A c \in UserColumns :
                users'[i][c] # users[i][c] =>
                    /\ resp'.kind = "user"
                    /\ users[i].id = resp'.id
                    /\ RequestField(c) \in resp'.fields
          /\ \A i \in DOMAIN paints : \A c \in PaintColumns :
                paints'[i][c] # paints[i][c] =>
                    /\ resp'.kind = "paint"
                    /\ paints[i].id = resp'.id
                    /\ RequestField(c) \in resp'.fields]_vars

\* C9 witness: a PUT /users/{id} carrying only an email succeeded on a user whose
\* status had been set to inactive before, and the status is still inactive.
C9_Witness ==
    /\ resp.op = "update" /\ resp.kind = "user" /\ resp.status = 200
    /\ resp.fields = {"email"}
    /\ \E i \in DOMAIN users : users[i].id = resp.id /\ users[i].status = "inactive"

\* C10: GET, PUT and DELETE on /users/{id} and /paints/{id} are answered 404
\* whenever no non-deleted row has that id, whatever the body carries.
C10_MissingIs404 ==
    (resp.op \in {"get", "update", "delete"} /\ ~resp.found) => resp.status = 404

\* C11: a create or update request for a user or a paint whose data fails domain
\* validation (the service raises ValueError) is answered with status 400.
C11_ValidationIs400 ==
    (resp.op \in {"create", "update"} /\ resp.outcome = "ValueError") => resp.status = 400

(***************************************************************************)
(* Authentication and authorization: AuthService and AuthApplicationService *)
(* (application/services.py), the login route (presentation/api/v1/auth.py) *)
(* and the dependencies of infrastructure/middleware.py. The table starts   *)
(* with the administrator that init.py creates.                             *)
(***************************************************************************)

AdminRole == "admin"
AdminUsername == "admin"
AdminPassword == "Admin@2024!"

\* init.py create_admin_user
AdminCreate ==
    [email |-> "admin@tintas-ai-loomi.com", username |-> AdminUsername,
     password |-> AdminPassword, full_name |-> "System Administrator",
     role |-> AdminRole]

\* A bearer token: the claims of the JWT and whether jwt.decode accepts it
\* (signature and expiry).
NoTokenData == [user_id |-> 0]
Tokens ==
    [sub : UserIds, username : {AdminUsername}, role : Roles \cup {AdminRole},
     sig : {"valid", "invalid"}]

\* AuthService.create_access_token
CreateAccessToken(user) ==
    [sub |-> user.id, username |-> user.username, role |-> user.role, sig |-> "valid"]

\* AuthService.verify_token
VerifyToken(token) ==
    IF token.sig # "valid" THEN NoTokenData
    ELSE [user_id |-> token.sub, username |-> token.username, role |-> token.role]

\* AuthService.verify_password
VerifyPassword(plain_password, hashed_password) == Hash(plain_password) = hashed_password

\* Mutant of UserGetWithPassword: soft-deleted users are found too.
UserGetWithPasswordAnyRow(t, username) ==
    First(SelectSeq(t, LAMBDA u : u.username = username))

\* UserRepository.get_user_with_password
UserGetWithPassword(t, username) ==
    First(SelectSeq(GetActiveUserQuery(t), LAMBDA u : u.username = username))

\* AuthService.authenticate_user: the user, or NoRow.
AuthenticateUser(t, username, password) ==
    LET u == UserGetWithPassword(t, username)
    IN IF u = NoRow THEN NoRow
       ELSE IF ~VerifyPassword(password, u.hashed_password) THEN NoRow
       ELSE u

\* The value of last_login after a login (datetime.utcnow()).
LoginTime == "utcnow"

\* UserRepository.update_last_login
UpdateLastLogin(t, user_id) ==
    IF UserGetById(t, user_id) = NoRow THEN t
    ELSE [i \in DOMAIN t |->
             IF t[i].id = user_id THEN [t[i] EXCEPT !.last_login = LoginTime] ELSE t[i]]

\* Mutant of GetCurrentUser: the user is looked up among all rows, soft-deleted
\* ones included.
GetCurrentUserAnyRow(t, token) ==
    LET token_data == VerifyToken(token)
        rows == SelectSeq(t, LAMBDA u : u.id = token_data.user_id)
    IN IF token_data = NoTokenData \/ rows = <<>> THEN [status |-> 401, user |-> NoRow]
       ELSE [status |-> 200, user |-> rows[1]]

\* AuthenticationService.get_current_user: 401 for a token that does not verify
\* or whose user_id is no active user.
GetCurrentUser(t, token) ==
    LET token_data == VerifyToken(token)
    IN IF token_data = NoTokenData THEN [status |-> 401, user |-> NoRow]
       ELSE IF UserGetById(t, token_data.user_id) = NoRow
            THEN [status |-> 401, user |-> NoRow]
       ELSE [status |-> 200, user |-> UserGetById(t, token_data.user_id)]

\* Mutant of GetCurrentAdminUser: the role is not looked at.
GetCurrentAdminUserAnyRole(t, token) == GetCurrentUser(t, token)

\* get_current_admin_user: get_current_user, then 403 unless the user's role is
\* ADMIN.
GetCurrentAdminUser(t, token) ==
    LET current == GetCurrentUser(t, token)
    IN IF current.status # 200 THEN current
       ELSE IF current.user.role # AdminRole THEN [status |-> 403, user |-> NoRow]
       ELSE current

\* ---- requests ----

\* Bodies of the guarded requests of this part: the user "ana" is created, and an
\* update carries a role only.
AuthCreates == {d \in UserCreates : d.username = "ana" /\ d.email = "ana@tintas.io"}
AuthUpdates == {d \in UserUpdates : SetFields(d, UserUpdateFields) = {"role"}}
LoginUsernames == Usernames \cup {AdminUsername}
LoginPasswords == Passwords \cup {AdminPassword}

\* The dependency get_current_admin_user has admitted the request and its
\* handler has not run yet.
Admitted == resp.op = "auth" /\ resp.status = 200

\* Depends(get_current_admin_user) of a guarded route: the handler is entered
\* only if the dependency returns; otherwise its HTTPException is the response.
Authorize(token) ==
    /\ ~Admitted
    /\ resp' = Response("auth", "user", 0, FALSE,
                        GetCurrentAdminUser(users, token).status, {})
               @@ [token |-> token]
    /\ UNCHANGED <<chatVars, users, paints, searchVars, ctxVars>>

\* POST /auth/login: AuthApplicationService.login; ValueError is answered 401.
Login(username, password) ==
    /\ ~Admitted
    /\ LET user == AuthenticateUser(users, username, password)
       IN IF user = NoRow
          THEN /\ resp' = Response("login", "user", 0, FALSE, 401, {})
                          @@ [username |-> username, password |-> password,
                              token |-> NoTokenData]
               /\ UNCHANGED users
          ELSE /\ users' = UpdateLastLogin(users, user.id)
               /\ resp' = Response("login", "user", user.id, TRUE, 200, {})
                          @@ [username |-> username, password |-> password,
                              token |-> CreateAccessToken(user)]
    /\ UNCHANGED <<chatVars, paints, searchVars, ctxVars>>

\* The handlers of /users behind the dependency.
AdminHandler ==
    /\ Admitted
    /\ \/ \E user_data \in AuthCreates : CreateUser(user_data)
       \/ \E user_id \in UserIds : GetUser(user_id)
       \/ ListUsers
       \/ \E user_id \in UserIds, user_data \in AuthUpdates : UpdateUser(user_id, user_data)
       \/ \E user_id \in UserIds : DeleteUser(user_id)

AuthInit ==
    /\ users = UserRepoCreate(<<>>, AdminCreate, Hash(AdminPassword)).table
    /\ paints = <<>>
    /\ resp = NoResp
    /\ CtxInit
    /\ ChatInit
    /\ catalog = <<>>
    /\ searchOut = NoSearch

AuthNext ==
    \/ \E token \in Tokens : Authorize(token)
    \/ \E username \in LoginUsernames, password \in LoginPasswords : Login(username, password)
    \/ AdminHandler

SpecAuth == AuthInit /\ [][AuthNext]_vars

\* The active rows of the table before the step whose id is the token's sub.
TokenUsers(token) ==
    {i \in DOMAIN users : users[i].id = token.sub /\ users[i].deleted_at = None}

\* C12: an admin-guarded endpoint runs its handler only when the bearer token
\* verifies, the token's user exists as a non-deleted user and that user's role
\* is admin; the request is answered 401 when the token is invalid or the user is
\* not found and 403 when the user is not an admin, with no state change.
C12_AdminGuard ==
    [][/\ resp'.op = "auth" =>
             /\ users' = users /\ paints' = paints
             /\ resp'.status =
                   IF resp'.token.sig # "valid" \/ TokenUsers(resp'.token) = {} THEN 401
                   ELSE IF \E i \in TokenUsers(resp'.token) : users[i].role # "admin"
                        THEN 403
                   ELSE 200
       /\ resp'.op \in {"create", "get", "list", "update", "delete", "import"} =>
             /\ resp.op = "auth" /\ resp.status = 200
             /\ resp.token.sig = "valid"
             /\ \E i \in TokenUsers(resp.token) : users[i].role = "admin"]_vars

\* C12 witness: a token that verifies and says admin was answered 403, because its
\* user has meanwhile been given the role user.
C12_Witness ==
    /\ resp.op = "auth" /\ resp.status = 403
    /\ resp.token.sig = "valid" /\ resp.token.role = "admin"

\* The active users whose username and password are the ones of the login request.
LoginMatches(username, password) ==
    {i \in DOMAIN users :
        /\ users[i].deleted_at = None
        /\ users[i].username = username
        /\ users[i].hashed_password = Hash(password)}

\* C13: login answers 200 with a token exactly when the username belongs to a
\* non-deleted user whose stored hash the password verifies against; then that
\* user's last_login is set, nothing else changes, and the token carries that
\* user's id, username and role; otherwise the answer is 401 and nothing changes.
C13_Login ==
    [][resp'.op = "login" =>
          IF LoginMatches(resp'.username, resp'.password) # {}
          THEN /\ resp'.status = 200
               /\ \E i \in LoginMatches(resp'.username, resp'.password) :
                     /\ resp'.token = [sub |-> users[i].id, username |-> users[i].username,
                                       role |-> users[i].role, sig |-> "valid"]
                     /\ users' = [users EXCEPT ![i].last_login = LoginTime]
          ELSE /\ resp'.status = 401
               /\ resp'.token = NoTokenData
               /\ users' = users]_vars

\* C13 witness: a login with the right password of a soft-deleted user was
\* answered 401.
C13_Witness ==
    /\ resp.op = "login" /\ resp.status = 401
    /\ \E i \in DOMAIN users :
          /\ users[i].deleted_at # None
          /\ users[i].username = resp.username
          /\ users[i].hashed_password = Hash(resp.password)

(***************************************************************************)
(* Chat: the routes of presentation/api/v1/chat.py, the client of the      *)
(* orchestrator (AIOrchestratorService) and the orchestrator's /chat       *)
(* endpoint, whose agent is process_query above. A chat request is two      *)
(* steps: everything up to the HTTP call to the orchestrator, and           *)
(* everything after its reply; other requests run in between.              *)
(***************************************************************************)

\* The registered users of this part.
AnaCreate ==
    [email |-> "ana@tintas.io", username |-> "ana", password |-> "senha-um1",
     full_name |-> "Ana Lima", role |-> "user"]
BiaCreate ==
    [email |-> "bia@tintas.io", username |-> "bia", password |-> "senha-dois2",
     full_name |-> "Ana Lima", role |-> "user"]
ChatUsers ==
    UserRepoCreate(UserRepoCreate(<<>>, AnaCreate, Hash(AnaCreate.password)).table,
                   BiaCreate, Hash(BiaCreate.password)).table

\* A request without Authorization header (HTTPBearer(auto_error=False)
\* yields None), and the bearer tokens a request may carry.
NoCredentials == [sub |-> 0, username |-> AdminUsername, role |-> "user", sig |-> "absent"]
ChatCredentials == {NoCredentials} \cup {t \in Tokens : t.role = "user"}

\* get_current_user_optional: the user, or NoRow for None.
GetCurrentUserOptional(t, credentials) ==
    IF credentials = NoCredentials THEN NoRow
    ELSE LET current == GetCurrentUser(t, credentials)
         IN IF current.status = 200 THEN current.user ELSE NoRow

\* Python dictionaries with string keys.
EmptyDict == [k \in {} |-> FALSE]
DictGet(dict, key, default) == IF key \in DOMAIN dict THEN dict[key] ELSE default
DictSet(dict, key, value) ==
    [k \in DOMAIN dict \cup {key} |-> IF k = key THEN value ELSE dict[k]]

\* ChatRequest bodies. user_id 0 is None; a context of None behaves as {} on
\* every path (`context or {}`), so {} stands for both.
ClientContexts ==
    {EmptyDict} \cup {DictSet(EmptyDict, "disable_visual_generation", b) : b \in BOOLEAN}
ChatRequests ==
    [message : {"Qual tinta para a sala?"}, user_id : {0, 1},
     conversation_id : {None, "c1"}, session_id : {None, "s1"},
     context : ClientContexts]
ConversationIds == {"c1", "uuid-1", "uuid-2"}

\* str(uuid.uuid4()): an id no conversation has.
Uuids == <<"uuid-1", "uuid-2", "uuid-3", "uuid-4">>
Uuid4(convs) == Uuids[Len(convs) + 1]

\* get_or_create_conversation: the conversation with that conversation_id,
\* whoever owns it, or a new row.
GetOrCreateConversation(convs, user_id, conversation_id) ==
    LET found == SelectSeq(convs, LAMBDA c : c.conversation_id = conversation_id)
        row == [user_id |-> user_id,
                conversation_id |-> IF conversation_id # None THEN conversation_id
                                    ELSE Uuid4(convs),
                is_active |-> TRUE]
    IN IF conversation_id # None /\ found # <<>>
       THEN [table |-> convs, conversation |-> found[1]]
       ELSE [table |-> Append(convs, row), conversation |-> row]

\* Mutant of ChatMessageRow: is_user is not passed on, every row is stored
\* as a user message.
ChatMessageRowAlwaysUser(user_id, conversation_id, message, response, is_user, has_image, image_url, intent, confidence, tools_used) ==
    [user_id |-> user_id, conversation_id |-> conversation_id,
     message |-> message, response |-> None,
     is_user |-> TRUE, has_image |-> has_image, image_url |-> image_url,
     intent |-> intent, confidence |-> confidence, tools_used |-> tools_used]

\* save_chat_message: the row added. confidence is kept in tenths, 0 for None.
ChatMessageRow(user_id, conversation_id, message, response, is_user, has_image, image_url, intent, confidence, tools_used) ==
    [user_id |-> user_id, conversation_id |-> conversation_id,
     message |-> IF is_user THEN message ELSE response,
     response |-> IF ~is_user THEN response ELSE None,
     is_user |-> is_user, has_image |-> has_image, image_url |-> image_url,
     intent |-> intent, confidence |-> confidence, tools_used |-> tools_used]

\* Mutant of PayloadContext: the client's context is forwarded as sent.
PayloadContextAsSent(context, is_authenticated) == context

\* AIOrchestratorService.send_chat_message: the context of the payload.
PayloadContext(context, is_authenticated) ==
    IF ~is_authenticated THEN DictSet(context, "disable_visual_generation", TRUE)
    ELSE context

\* AIOrchestratorService.send_chat_message: the payload posted to /api/v1/chat.
Payload(chat_request, is_authenticated) ==
    [message |-> chat_request.message,
     user_id |-> chat_request.user_id,
     conversation_id |-> IF is_authenticated THEN chat_request.conversation_id ELSE None,
     session_id |-> IF ~is_authenticated THEN chat_request.session_id ELSE None,
     context |-> PayloadContext(chat_request.context, is_authenticated)]

\* The tools process_query builds the agent with for a payload.
AgentTools(payload) ==
    InitializeTools(DictGet(payload.context, "disable_visual_generation", FALSE))

\* The call failed: HTTP error status, timeout or connection error; the client
\* raises Exception.
HttpError == [AgentResponse(None, None, 0, None, <<>>) EXCEPT !.outcome = "Exception"]

\* chat_with_ai of the orchestrator as the client sees it: 400 unless exactly
\* one id is given; otherwise what process_query returns (an answer or the
\* apology), or a failure of the call.
OrchestratorReplies(payload) ==
    IF (payload.conversation_id # None) = (payload.session_id # None)
    THEN {HttpError}
    ELSE {HttpError, OnProcessQueryError("Exception")}
         \cup {AnswerResponse(res) :
                 res \in {a \in AgentResults(AgentTools(payload)) : a.output = "Ola!"}}

\* The ChatResponse the client builds from the reply's JSON; intent and
\* tools_used are not read from it.
ChatResponse(data, conversation_id) ==
    [response |-> data.response, has_image |-> data.visual_url # None,
     image_url |-> data.visual_url, confidence |-> data.confidence,
     intent |-> None, tools_used |-> <<>>, conversation_id |-> conversation_id]
NoChatResponse ==
    [response |-> None, has_image |-> FALSE, image_url |-> None, confidence |-> 0,
     intent |-> None, tools_used |-> <<>>, conversation_id |-> None]

\* The answer of a chat route: status, the ChatResponse, and who asked.
ChatAnswer(op, status, is_authenticated, chat_response) ==
    Response(op, "chat", 0, FALSE, status, {})
    @@ [is_authenticated |-> is_authenticated, body |-> chat_response]

\* POST /chat/message up to the call of the orchestrator. The HTTPException
\* for a guest without session_id is caught by `except Exception` and
\* answered 500.
SendChatMessage(c, credentials, request) ==
    /\ chat[c].pc = "new"
    /\ \A x \in ChatSlots : x < c => chat[x].pc # "new"
    /\ LET current_user == GetCurrentUserOptional(users, credentials)
           is_authenticated == current_user # NoRow
           user_id == IF is_authenticated THEN current_user.id ELSE request.user_id
       IN IF ~is_authenticated /\ request.session_id = None
          THEN /\ resp' = ChatAnswer("send_chat_message", 500, FALSE, NoChatResponse)
               /\ chat' = [chat EXCEPT ![c] = [pc |-> "done"]]
               /\ UNCHANGED <<conversations, messages>>
          ELSE LET got == GetOrCreateConversation(conversations, user_id,
                                                  request.conversation_id)
                   cid == got.conversation.conversation_id
                   sent == [request EXCEPT !.user_id = user_id, !.conversation_id = cid]
               IN /\ conversations' = got.table
                  /\ messages' = Append(messages,
                        ChatMessageRow(user_id, cid, request.message, "", TRUE, FALSE,
                                       None, None, 0, <<>>))
                  /\ chat' = [chat EXCEPT ![c] =
                        [pc |-> "awaiting", route |-> "send_chat_message",
                         is_authenticated |-> is_authenticated, user_id |-> user_id,
                         conversation_id |-> cid, row |-> Len(messages) + 1,
                         context |-> request.context,
                         payload |-> Payload(sent, is_authenticated)]]
                  /\ resp' = NoResp
    /\ UNCHANGED <<users, paints, searchVars, ctxVars>>

\* POST /chat/message/guest up to the call of the orchestrator: nothing is
\* stored.
SendChatMessageGuest(c, request) ==
    /\ chat[c].pc = "new"
    /\ \A x \in ChatSlots : x < c => chat[x].pc # "new"
    /\ LET sent == [request EXCEPT !.user_id = 0,
                       !.context = DictSet(@, "disable_visual_generation", TRUE)]
       IN chat' = [chat EXCEPT ![c] =
             [pc |-> "awaiting", route |-> "send_chat_message_guest",
              is_authenticated |-> FALSE, user_id |-> 0,
              conversation_id |-> None, row |-> 0, context |-> request.context,
              payload |-> Payload(sent, FALSE)]]
    /\ resp' = NoResp
    /\ UNCHANGED <<conversations, messages, users, paints, searchVars, ctxVars>>

\* The orchestrator replied, or the call failed: the rest of the route. A
\* failure is answered 500; the user's row stays.
AfterReply(c, reply) ==
    /\ chat' = [chat EXCEPT ![c] = [pc |-> "done"]]
    /\ IF reply.outcome # "returned"
       THEN /\ resp' = ChatAnswer(chat[c].route, 500, chat[c].is_authenticated,
                                  NoChatResponse) @@ [slot |-> c]
            /\ UNCHANGED <<conversations, messages>>
       ELSE LET response == ChatResponse(reply, chat[c].conversation_id)
            IN /\ resp' = ChatAnswer(chat[c].route, 200, chat[c].is_authenticated,
                                     response) @@ [slot |-> c]
               /\ messages' =
                    IF chat[c].route = "send_chat_message_guest" THEN messages
                    ELSE Append(messages,
                           ChatMessageRow(chat[c].user_id, chat[c].conversation_id, "",
                                          response.response, FALSE, response.has_image,
                                          response.image_url, response.intent,
                                          response.confidence, response.tools_used))
               /\ UNCHANGED conversations
    /\ UNCHANGED <<users, paints, searchVars, ctxVars>>

\* GET /chat/conversations/{conversation_id}/messages
GetConversationMessages(credentials, conversation_id) ==
    /\ LET current_user == GetCurrentUserOptional(users, credentials)
           found == SelectSeq(conversations,
                              LAMBDA c : c.conversation_id = conversation_id)
           status == IF found = <<>> THEN 404
                     ELSE IF current_user # NoRow /\ found[1].user_id # current_user.id
                          THEN 403
                     ELSE 200
           rows == IF status # 200 THEN <<>>
                   ELSE SelectSeq(messages,
                                  LAMBDA m : m.conversation_id = conversation_id)
       IN resp' = Response("get_conversation_messages", "chat", 0, found # <<>>,
                           status, {})
                  @@ [caller |-> current_user.id, conversation_id |-> conversation_id,
                      owner |-> IF found = <<>> THEN 0 ELSE found[1].user_id,
                      rows |-> rows]
    /\ UNCHANGED <<chatVars, users, paints, searchVars, ctxVars>>

ReceiveReply(c) ==
    /\ chat[c].pc = "awaiting"
    /\ \E reply \in OrchestratorReplies(chat[c].payload) : AfterReply(c, reply)

ChatFullInit ==
    /\ users = ChatUsers
    /\ paints = <<>>
    /\ resp = NoResp
    /\ CtxInit
    /\ ChatInit
    /\ catalog = <<>>
    /\ searchOut = NoSearch

ChatNext ==
    \/ \E c \in ChatSlots, credentials \in ChatCredentials, request \in ChatRequests :
          SendChatMessage(c, credentials, request)
    \/ \E c \in ChatSlots, request \in ChatRequests : SendChatMessageGuest(c, request)
    \/ \E c \in ChatSlots : ReceiveReply(c)
    \/ \E credentials \in ChatCredentials, conversation_id \in ConversationIds :
          GetConversationMessages(credentials, conversation_id)

SpecChat == ChatFullInit /\ [][ChatNext]_vars

\* C15: for every chat request without valid authentication, whatever context
\* the client supplies, the payload sent to the orchestrator has
\* disable_visual_generation = true, visual_generation is not among the agent's
\* tools, and the response carries no image (image_url null, has_image false).
C15_GuestsNoImages ==
    /\ \A c \in ChatSlots :
          (chat[c].pc = "awaiting" /\ ~chat[c].is_authenticated) =>
              /\ DictGet(chat[c].payload.context, "disable_visual_generation", FALSE)
              /\ "visual_generation" \notin AgentTools(chat[c].payload)
    /\ (/\ resp.op \in {"send_chat_message", "send_chat_message_guest"}
        /\ ~resp.is_authenticated
        /\ resp.status = 200) =>
           /\ resp.body.image_url = None
           /\ ~resp.body.has_image

\* C15 witness: a request with an invalid token that asks for visual generation
\* in its context is waiting for the orchestrator, with the flag forced.
C15_Witness ==
    \E c \in ChatSlots :
        /\ chat[c].pc = "awaiting"
        /\ chat[c].route = "send_chat_message"
        /\ ~chat[c].is_authenticated
        /\ "disable_visual_generation" \in DOMAIN chat[c].context
        /\ ~chat[c].context["disable_visual_generation"]
        /\ chat[c].payload.context["disable_visual_generation"]

\* The row is the user's message of the request in slot c.
IsUserRow(row, c) ==
    /\ row.is_user
    /\ row.conversation_id = chat[c].conversation_id
    /\ row.message = chat[c].payload.message

\* C16: for every POST /chat/message that returns a successful response, one
\* user-message row and one AI-response row exist under the conversation_id
\* returned; the user row is stored before the orchestrator is called (it is
\* there while the call is in flight) and the AI row when it has answered.
C16_MessagesSaved ==
    [][/\ \A c \in ChatSlots :
             (chat'[c].pc = "awaiting" /\ chat'[c].route = "send_chat_message") =>
                 /\ chat'[c].row \in 1..Len(messages')
                 /\ messages'[chat'[c].row].is_user
                 /\ messages'[chat'[c].row].conversation_id = chat'[c].conversation_id
                 /\ chat[c].pc = "new" =>
                       /\ Len(messages') = Len(messages) + 1
                       /\ chat'[c].row = Len(messages')
       /\ (resp'.op = "send_chat_message" /\ resp'.status = 200) =>
             LET c == resp'.slot
                 cid == resp'.body.conversation_id
             IN /\ chat[c].pc = "awaiting"
                /\ cid = chat[c].conversation_id
                /\ \E i \in 1..Len(conversations') :
                      conversations'[i].conversation_id = cid
                /\ IsUserRow(messages[chat[c].row], c)
                /\ Len(messages') = Len(messages) + 1
                /\ SubSeq(messages', 1, Len(messages)) = messages
                /\ ~messages'[Len(messages')].is_user
                /\ messages'[Len(messages')].conversation_id = cid
                /\ messages'[Len(messages')].response = resp'.body.response]_vars

\* C16 witness: a request was answered successfully while the rows of another
\* conversation were stored between its user row and its AI row.
C16_Witness ==
    /\ resp.op = "send_chat_message"
    /\ resp.status = 200
    /\ Len(messages) >= 3
    /\ messages[Len(messages)].conversation_id = resp.body.conversation_id
    /\ messages[Len(messages) - 1].conversation_id # resp.body.conversation_id
    /\ \E i \in 1..Len(messages) :
          messages[i].is_user /\ messages[i].conversation_id = resp.body.conversation_id

\* C17: the messages of a conversation owned by user U are never returned to a
\* request that is not authenticated as U.
C17_OnlyOwnerReads ==
    (/\ resp.op = "get_conversation_messages"
     /\ resp.status = 200
     /\ resp.owner # 0) => resp.caller = resp.owner

(***************************************************************************)
(* CSV import with the file it is given: decoding, the structure check,    *)
(* csv.DictReader, the row validators and the result that is returned.     *)
(***************************************************************************)

\* CSVValidator.REQUIRED_COLUMNS
REQUIRED_COLUMNS ==
    <<"nome", "cor", "tipo_parede", "ambiente", "acabamento", "features", "linha">>
\* required_fields of validate_csv_row
RequiredFields == {"nome", "cor", "tipo_parede", "ambiente", "acabamento", "linha"}
\* Columns whose cell is a comma-separated list; such a cell is kept as the
\* sequence of its items.
ListColumns == {"tipo_parede", "features"}

SurfaceTypes == {"alvenaria", "madeira", "ferro", "concrete", "metal", "plastic"}
Environments == {"interno", "externo", "interno/externo"}
FinishTypes == {"fosco", "acetinado", "brilhante", "semi-brilhante"}
PaintLines == {"premium", "standard", "economic"}

\* str.lower() on the strings that occur.
Lower(str) ==
    CASE str = "Nome" -> "nome"
      [] str = "Fosco" -> "fosco"
      [] OTHER -> str

\* Data rows, one cell per column of REQUIRED_COLUMNS. A cell the line does
\* not have (DictReader fills in None) acts as an empty one in both validators
\* and stands as one here.
GoodCells(name, color) ==
    <<name, color, <<"alvenaria">>, "interno", "Fosco", <<"lavavel">>, "premium">>
MalformedCells(name) ==
    {<<"", "azul", <<"alvenaria">>, "interno", "fosco", <<>>, "premium">>,
     <<name, "azul", <<"alvenaria", "vidro">>, "interno", "fosco", <<>>, "premium">>,
     <<name, "azul", <<"alvenaria">>, "lunar", "fosco", <<>>, "premium">>,
     <<name, "azul", <<"alvenaria">>, "interno", "espelhado", <<>>, "premium">>,
     <<name, "azul", <<"alvenaria">>, "interno", "fosco", <<>>, "luxo">>}
CsvLines ==
    {GoodCells(name, "branco") : name \in PaintNames}
    \cup MalformedCells("Suvinil Fosco")

\* Other header lines: with a capital, and without the column linha.
OtherHeaders ==
    {<<"Nome", "cor", "tipo_parede", "ambiente", "acabamento", "features", "linha">>,
     <<"nome", "cor", "tipo_parede", "ambiente", "acabamento", "features">>}

\* file_content. lines is the text the characters of the base-64 alphabet in
\* file_content stand for, header first; transport says what else the string
\* has: nothing ("base64"), a character outside the alphabet
\* ("stray_character"), a wrong padding ("bad_padding"), or bytes that are no
\* UTF-8 ("bad_utf8").
\* The texts: empty, a header alone, up to MaxCsvRows rows under the required
\* header, and one good row under each other header.
CsvTexts ==
    {<<>>, <<REQUIRED_COLUMNS>>}
    \cup UNION {{<<REQUIRED_COLUMNS>> \o rows : rows \in [1..n -> CsvLines]} :
                   n \in 1..MaxCsvRows}
    \cup {<<h, GoodCells("Suvinil Fosco", "branco")>> : h \in OtherHeaders}
GoodText == <<REQUIRED_COLUMNS, GoodCells("Suvinil Fosco", "branco")>>
CsvUploads ==
    [transport : {"base64"}, lines : CsvTexts]
    \cup [transport : {"stray_character", "bad_padding", "bad_utf8"}, lines : {GoodText}]

\* skip_duplicates and update_existing of CSVImportRequest; skip_duplicates
\* takes precedence when both are set.
ImportFlags == {<<TRUE, FALSE>>, <<FALSE, TRUE>>, <<FALSE, FALSE>>}

\* _decode_csv_content: base64.b64decode without validate discards the
\* characters outside the alphabet before decoding; a wrong padding and
\* undecodable bytes raise, turned into ValueError.
DecodeCsvContent(upload) ==
    IF upload.transport \in {"bad_padding", "bad_utf8"}
    THEN [outcome |-> "ValueError", lines |-> <<>>]
    ELSE [outcome |-> "ok", lines |-> upload.lines]

\* CSVValidator.validate_csv_structure: TRUE when it raises ValueError.
CsvStructureInvalid(lines) ==
    \/ lines = <<>>
    \/ Len(lines) < 2
    \/ \E required_col \in Range(REQUIRED_COLUMNS) :
          required_col \notin {Lower(col) : col \in Range(lines[1])}

\* parse_csv_content: csv.DictReader keys every row by the header as written.
ParseCsvContent(lines) ==
    [i \in 1..(Len(lines) - 1) |->
        [col \in Range(lines[1]) |->
            lines[i + 1][CHOOSE k \in DOMAIN lines[1] : lines[1][k] = col]]]

\* row.get(field), an absent key reading as an empty cell.
RowGet(row, field) ==
    IF field \in DOMAIN row THEN row[field]
    ELSE IF field \in ListColumns THEN <<>> ELSE ""

\* CSVValidator.validate_csv_row: TRUE when it raises ValueError.
CsvRowInvalid(row) ==
    \E field \in RequiredFields :
        RowGet(row, field) = (IF field \in ListColumns THEN <<>> ELSE "")

\* CSVValidator.validate_enum_values: TRUE when it raises ValueError.
CsvEnumInvalid(row) ==
    \/ \E surface_type \in Range(RowGet(row, "tipo_parede")) :
          Lower(surface_type) \notin SurfaceTypes
    \/ Lower(RowGet(row, "ambiente")) \notin Environments
    \/ Lower(RowGet(row, "acabamento")) \notin FinishTypes
    \/ Lower(RowGet(row, "linha")) \notin PaintLines

\* CSVImportResult before the first row.
NewImportResult(total_rows) ==
    [total_rows |-> total_rows, successful_imports |-> 0, failed_imports |-> 0,
     errors |-> <<>>, imported_paints |-> <<>>]

\* Mutant of RowFailed: the failure of a row is not recorded.
RowFailedUnrecorded(result, i, error) == result

\* A row that fails: "Row i: ..." is added to errors and failed_imports grows.
RowFailed(result, i, error) ==
    [result EXCEPT !.errors = Append(@, [row |-> i, error |-> error]),
                   !.failed_imports = @ + 1]

\* A row that is imported.
RowImported(result, paint_id) ==
    [result EXCEPT !.imported_paints = Append(@, paint_id),
                   !.successful_imports = @ + 1]

\* The body of the loop of _process_csv_rows for row number i: table and
\* result after it.
ImportRow(t, result, row, i, skip_duplicates, update_existing, api_ok) ==
    IF CsvRowInvalid(row) \/ CsvEnumInvalid(row)
    THEN [table |-> t, result |-> RowFailed(result, i, "ValueError")]
    ELSE LET paint_data == [name |-> row["nome"], color |-> row["cor"]]
             existing == PaintGetByName(t, paint_data.name)
         IN IF existing # NoRow
            THEN IF skip_duplicates
                 THEN [table |-> t, result |-> RowFailed(result, i, "exists, skipping")]
                 ELSE IF update_existing
                 THEN LET u == UpdatePaintService(t, existing.id,
                                   [name |-> Unset, color |-> paint_data.color])
                      IN IF u.outcome = "ok"
                         THEN [table |-> u.table,
                               result |-> RowImported(result, existing.id)]
                         ELSE [table |-> u.table,
                               result |-> RowFailed(result, i, u.outcome)]
                 ELSE [table |-> t, result |-> RowFailed(result, i, "exists")]
            ELSE LET r == CreatePaintService(t, paint_data)
                 IN IF r.outcome = "ok"
                    THEN [table |-> GenerateAndStoreEmbedding(r.table, Len(r.table),
                                                              api_ok).table,
                          result |-> RowImported(result, Len(r.table))]
                    ELSE [table |-> r.table,
                          result |-> RowFailed(result, i, r.outcome)]

\* _process_csv_rows from row number i on (the header is row 1).
RECURSIVE ImportRows(_, _, _, _, _, _, _)
ImportRows(t, result, rows, i, skip_duplicates, update_existing, api_ok) ==
    IF i - 1 > Len(rows) THEN [table |-> t, result |-> result]
    ELSE LET step == ImportRow(t, result, rows[i - 1], i, skip_duplicates,
                               update_existing, api_ok)
         IN ImportRows(step.table, step.result, rows, i + 1, skip_duplicates,
                       update_existing, api_ok)

\* CSVImportService.import_paints_from_csv: the CSVImportResponse and the table.
ImportPaintsFromCsvService(t, upload, skip_duplicates, update_existing, api_ok) ==
    LET decoded == DecodeCsvContent(upload)
        rows == ParseCsvContent(decoded.lines)
        done == ImportRows(t, NewImportResult(Len(rows)), rows, 2, skip_duplicates,
                           update_existing, api_ok)
    IN IF decoded.outcome # "ok" \/ CsvStructureInvalid(decoded.lines)
       THEN [success |-> FALSE, result |-> NewImportResult(0), table |-> t]
       ELSE [success |-> TRUE, result |-> done.result, table |-> done.table]

\* POST /paints/import-csv: the service's response is returned as it is.
ImportPaintsFromCsv(upload, skip_duplicates, update_existing, api_ok) ==
    /\ Len(paints) + Len(upload.lines) - 1 <= MaxPaints
    /\ LET r == ImportPaintsFromCsvService(paints, upload, skip_duplicates,
                                           update_existing, api_ok)
       IN /\ paints' = r.table
          /\ resp' = Response("import_paints_from_csv", "paint", 0, FALSE, 200, {})
                     @@ [upload |-> upload, skip_duplicates |-> skip_duplicates,
                         update_existing |-> update_existing,
                         success |-> r.success, result |-> r.result]
    /\ UNCHANGED <<chatVars, users, searchVars, ctxVars>>

CsvNext ==
    \/ \E upload \in CsvUploads, flags \in ImportFlags, api_ok \in BOOLEAN :
          ImportPaintsFromCsv(upload, flags[1], flags[2], api_ok)
    \/ \E paint_id \in PaintIds : DeletePaint(paint_id)

SpecCsv == CrudFullInit /\ [][CsvNext]_vars

\* The cell of column col in line i of a text, read under the header as it
\* is written; blank when the header has no such column.
CellOf(lines, i, col) ==
    IF \E k \in DOMAIN lines[1] : lines[1][k] = col
    THEN lines[i][CHOOSE k \in DOMAIN lines[1] : lines[1][k] = col]
    ELSE IF col \in ListColumns THEN <<>> ELSE ""

\* Line i misses a required field or names an invalid surface type,
\* environment, finish or line.
Malformed(lines, i) ==
    \/ \E col \in {"nome", "cor", "ambiente", "acabamento", "linha"} :
          CellOf(lines, i, col) = ""
    \/ CellOf(lines, i, "tipo_parede") = <<>>
    \/ \E x \in Range(CellOf(lines, i, "tipo_parede")) : Lower(x) \notin SurfaceTypes
    \/ Lower(CellOf(lines, i, "ambiente")) \notin Environments
    \/ Lower(CellOf(lines, i, "acabamento")) \notin FinishTypes
    \/ Lower(CellOf(lines, i, "linha")) \notin PaintLines

ActiveNames(t) == {t[j].name : j \in {x \in DOMAIN t : t[x].deleted_at = None}}

\* C18: in an accepted import a malformed row creates and changes no paint, is
\* counted in failed_imports and reported in errors with its row number (the
\* header is row 1), and the well-formed rows after it are still imported.
C18_MalformedRowSkipped ==
    [][(resp'.op = "import_paints_from_csv" /\ resp'.success) =>
        LET lines == resp'.upload.lines
            result == resp'.result
            bad == {i \in 2..Len(lines) : Malformed(lines, i)}
            good == (2..Len(lines)) \ bad
        IN /\ result.total_rows = Len(lines) - 1
           /\ result.failed_imports = Len(result.errors)
           /\ result.failed_imports >= Cardinality(bad)
           /\ \A i \in bad :
                 Cardinality({k \in DOMAIN result.errors : result.errors[k].row = i}) = 1
           /\ \A j \in DOMAIN paints' :
                 (j \notin DOMAIN paints \/ paints'[j] # paints[j]) =>
                     \E i \in good : CellOf(lines, i, "nome") = paints'[j].name
           /\ \A i \in good :
                 (/\ CellOf(lines, i, "nome") \notin ActiveNames(paints)
                  /\ \A h \in good : h < i =>
                        CellOf(lines, h, "nome") # CellOf(lines, i, "nome")) =>
                     /\ CellOf(lines, i, "nome") \in ActiveNames(paints')
                     /\ \A k \in DOMAIN result.errors : result.errors[k].row # i]_vars

\* C18 witness: row 2 was malformed and reported, row 3 was imported.
C18_Witness ==
    /\ resp.op = "import_paints_from_csv"
    /\ resp.success
    /\ Len(resp.upload.lines) = 3
    /\ Malformed(resp.upload.lines, 2)
    /\ ~Malformed(resp.upload.lines, 3)
    /\ resp.result.failed_imports = 1
    /\ resp.result.errors[1].row = 2
    /\ resp.result.successful_imports = 1
    /\ CellOf(resp.upload.lines, 3, "nome") \in ActiveNames(paints)

\* The file is empty, has no data row, is not valid base64 or UTF-8, or its
\* header lacks a required column.
Unacceptable(upload) ==
    \/ upload.transport # "base64"
    \/ upload.lines = <<>>
    \/ Len(upload.lines) = 1
    \/ \E col \in Range(REQUIRED_COLUMNS) :
          col \notin {Lower(h) : h \in Range(upload.lines[1])}

\* C19: a file that is empty, has no data row, is not valid base64/UTF-8, or
\* whose header lacks a required column is rejected as a whole: success is
\* false and no paint is created or modified.
C19_BadFileRejected ==
    [][(resp'.op = "import_paints_from_csv" /\ Unacceptable(resp'.upload)) =>
        (~resp'.success /\ paints' = paints)]_vars

\* C20: the embedding API is called at most once per paint and never while an
\* HTTP handler waits on it: no create or update request calls it before
\* answering, and no paint that has its embedding is embedded again.
C20_EmbeddedOnceOffRequestPath ==
    [][(resp'.kind = "paint" /\ resp'.op \in {"create", "update"}) =>
        /\ resp'.embedding_calls = {}
        /\ \A id \in resp'.embedding_calls :
              id \in DOMAIN paints => paints[id].embedding = NoEmbedding]_vars

\* C23: every payload the backend posts to the orchestrator, from POST
\* /chat/message and from POST /chat/message/guest, carries exactly one of
\* conversation_id and session_id: conversation_id for an authenticated caller,
\* session_id for a guest.
C23_ExactlyOneId ==
    \A c \in ChatSlots :
        chat[c].pc = "awaiting" =>
            /\ (chat[c].payload.conversation_id # None) #
                   (chat[c].payload.session_id # None)
            /\ chat[c].is_authenticated => chat[c].payload.conversation_id # None
            /\ ~chat[c].is_authenticated => chat[c].payload.session_id # None

\* The conversation and message rows a step adds.
NewConversations == {conversations'[i] : i \in (Len(conversations) + 1)..Len(conversations')}
NewMessages == {messages'[i] : i \in (Len(messages) + 1)..Len(messages')}
\* The owner of the conversation a message row belongs to (0 for None).
OwnerOf(row) ==
    LET i == CHOOSE j \in DOMAIN conversations' :
                 conversations'[j].conversation_id = row.conversation_id
    IN conversations'[i].user_id

\* C24: a chat message is stored only under the sender's own identity and
\* conversation. A request that is not authenticated never creates a
\* conversation or message row with a non-null user_id, and no request, guest or
\* authenticated, adds a message to a conversation owned by a different user.
C24_OwnIdentityOnly ==
    [][\A c \in ChatSlots :
        (chat'[c] # chat[c] /\ (NewConversations \cup NewMessages) # {}) =>
            LET sender == IF chat[c].pc = "awaiting" THEN chat[c] ELSE chat'[c]
            IN /\ ~sender.is_authenticated =>
                     \A row \in NewConversations \cup NewMessages : row.user_id = 0
               /\ \A row \in NewMessages :
                     OwnerOf(row) # 0 =>
                        sender.is_authenticated /\ sender.user_id = OwnerOf(row)]_vars

\* The tokens issued to users that have been soft-deleted since: they verify and
\* their sub is the id of a row with deleted_at set.
TokensOfDeletedUsers ==
    {t \in Tokens : t.sig = "valid" /\ \E i \in DOMAIN users :
                        users[i].id = t.sub /\ users[i].deleted_at # None}

\* C25: a token stops authenticating once its user is soft-deleted. In every
\* state after delete_user(U) succeeded, a request bearing a token issued to U is
\* answered 401 by the required-auth dependencies (get_current_user,
\* get_current_admin_user), and get_current_user_optional yields no user, so the
\* caller is treated as a guest.
C25_DeletedUserTokenRejected ==
    /\ \A t \in TokensOfDeletedUsers :
          /\ GetCurrentUser(users, t).status = 401
          /\ GetCurrentAdminUser(users, t).status = 401
          /\ GetCurrentUserOptional(users, t) = NoRow
    /\ (resp.op = "auth" /\ resp.token \in TokensOfDeletedUsers) => resp.status = 401

\* C25 witness: a user was created and soft-deleted, and a request bearing a
\* token with that user's id was then answered 401 by the dependency.
C25_Witness ==
    /\ resp.op = "auth" /\ resp.status = 401
    /\ resp.token \in TokensOfDeletedUsers
    /\ resp.token.sub # 1

(***************************************************************************)
(* Similarity search over the stored paints: the routes of paints.py that   *)
(* write the table, and POST /paints/search/similar reading it.             *)
(***************************************************************************)

\* POST /paints/search/similar: RAGService.search_similar_paints on the paints
\* table as it stands.
SearchStoredPaints(q, limit, threshold) ==
    /\ searchOut' = [called |-> TRUE, api |-> ApiOk(q), limit |-> limit,
                     threshold |-> threshold,
                     out |-> search_similar_paints(paints, ApiOk(q), limit, threshold)]
    /\ resp' = NoResp
    /\ UNCHANGED <<chatVars, catalog, users, paints, ctxVars>>

PaintSearchNext ==
    \/ \E paint_data \in PaintCreates, api_ok \in BOOLEAN : CreatePaint(paint_data, api_ok)
    \/ \E paint_id \in PaintIds : DeletePaint(paint_id)
    \/ \E q \in {<<1, 0>>, <<3, 4>>}, limit \in 1..MaxLimit, threshold \in Thresholds :
          SearchStoredPaints(q, limit, threshold)

SpecPaintSearch == CrudFullInit /\ [][PaintSearchNext]_vars

\* C26: a soft-deleted paint is never returned by similarity search. No result
\* of a search names a paint whose row is soft-deleted at the time of the search,
\* whatever the query, limit and threshold.
C26_DeletedNotFound ==
    [][(searchOut' # searchOut /\ searchOut'.called) =>
          \A i \in DOMAIN searchOut'.out.results :
              \A j \in DOMAIN paints :
                  paints[j].id = searchOut'.out.results[i].id =>
                      paints[j].deleted_at = None]_vars

\* C27: POST /paints is all-or-nothing. Whenever it answers with an error status
\* (400 or 500, a failed embedding generation included) the non-deleted paints
\* are the ones there were before, so the same request can be repeated without
\* being rejected as a duplicate name.
C27_CreateAllOrNothing ==
    [][(resp'.op = "create" /\ resp'.kind = "paint" /\ resp'.status \in {400, 500}) =>
          GetActivePaintQuery(paints') = GetActivePaintQuery(paints)]_vars

(***************************************************************************)
(* Service authentication between the backend and the orchestrator:         *)
(* AuthMiddleware (ai-orchestrator/app/middleware/auth_middleware.py),       *)
(* JWTService (ai-orchestrator/app/core/auth.py) and AIAuthService           *)
(* (api/app/services/ai_auth_service.py). Times are seconds on the clock     *)
(* `now`, read as UTC on both sides.                                         *)
(***************************************************************************)

\* The HS256 key of the orchestrator (settings.jwt_secret_key) and another key.
JwtSecretKey == "ai_orchestrator_secret_key_2024"
Secrets == {JwtSecretKey, "another-secret"}

\* A payload without exp claim: payload.get("exp", 0) is the epoch, which lies
\* before every time of the clock.
NoExp == -1
\* timedelta(hours=24)
ServiceTokenLifetime == 86400

PermissionNames == {"chat", "read"}
\* JWTs as the Authorization header may carry them: the key they were signed
\* with and their claims. permissions is a list of names.
ServiceTokens ==
    [secret : Secrets, exp : {NoExp, 1800, 90000},
     token_type : {"service", "access", None},
     permissions : SUBSET PermissionNames]
\* A bearer value that is no JWT at all.
Garbage == [secret |-> "none", exp |-> NoExp, token_type |-> None, permissions |-> {}]

\* Authorization headers: absent, another scheme, or "Bearer <token>".
NoHeader == [scheme |-> "absent", token |-> Garbage]
BasicHeader == [scheme |-> "Basic", token |-> Garbage]
Bearer(token) == [scheme |-> "Bearer", token |-> token]
Headers == {NoHeader, BasicHeader, Bearer(Garbage)} \cup {Bearer(t) : t \in ServiceTokens}

\* Request paths of the orchestrator.
ChatPath == "/api/v1/chat"
Paths == {ChatPath, "/api/v1/rag/chat-history", "/api/v1/models", "/api/v1/health",
          "/docs"}
\* path.startswith(endpoint) for some endpoint of public_endpoints
IsPublicEndpoint(path) == path \in {"/api/v1/health", "/docs"}
\* part in path (substring)
PathContains(path, part) ==
    <<path, part>> \in {<<ChatPath, "/chat">>, <<"/api/v1/rag/chat-history", "/chat">>,
                        <<"/api/v1/rag/chat-history", "/rag">>}

\* _get_required_permission
GetRequiredPermission(path) ==
    IF PathContains(path, "/chat") THEN "chat"
    ELSE IF PathContains(path, "/rag") THEN "rag"
    ELSE IF PathContains(path, "/embeddings") THEN "write"
    ELSE "read"

\* Mutant of JwtVerifyToken: token_type is not looked at.
JwtVerifyTokenAnyType(token, t) ==
    token.secret = JwtSecretKey /\ token.exp # NoExp /\ token.exp > t

\* JWTService.verify_token: TRUE when the payload is returned. jwt.decode
\* rejects a wrong signature, a malformed token and an exp that has passed; a
\* payload without exp is rejected by the comparison with the epoch.
JwtVerifyToken(token, t) ==
    /\ token.secret = JwtSecretKey
    /\ token.exp # NoExp
    /\ ~(token.exp <= t)
    /\ ~(t > token.exp)
    /\ token.token_type = "service"

\* JWTService.has_permission
HasPermission(token, required_permission) == required_permission \in token.permissions

\* AIAuthService.create_service_token with the backend's key at time t; the
\* model keeps the permissions asked for on the paths above, of "read",
\* "write", "rag", "chat" and "mcp".
CreateServiceToken(secret_key, t) ==
    [secret |-> secret_key, exp |-> t + ServiceTokenLifetime, token_type |-> "service",
     permissions |-> {"read", "chat"}]

\* AIAuthService.get_auth_headers
GetAuthHeaders(secret_key, t) == Bearer(CreateServiceToken(secret_key, t))

\* AuthMiddleware.dispatch: the status of the HTTPException it raises, or 200
\* when it calls call_next.
DispatchStatus(path, header, t) ==
    IF IsPublicEndpoint(path) THEN 200
    ELSE IF header.scheme # "Bearer" THEN 401
    ELSE IF ~JwtVerifyToken(header.token, t) THEN 401
    ELSE IF ~HasPermission(header.token, GetRequiredPermission(path)) THEN 403
    ELSE 200

DispatchAnswer(path, header, origin, secret_key) ==
    Response("dispatch", "service", 0, FALSE, DispatchStatus(path, header, now), {})
    @@ [path |-> path, header |-> header, origin |-> origin, secret_key |-> secret_key,
        passed |-> DispatchStatus(path, header, now) = 200]

\* Any request reaching the orchestrator.
Dispatch(path, header) ==
    /\ resp' = DispatchAnswer(path, header, "client", None)
    /\ lastGet' = NoGet
    /\ UNCHANGED <<chatVars, now, ticks, heap, cache, req, users, paints, searchVars>>

\* AIOrchestratorService.send_chat_message: the backend posts to the chat
\* path with the headers of get_auth_headers, made for this call.
BackendChat(secret_key) ==
    /\ resp' = DispatchAnswer(ChatPath, GetAuthHeaders(secret_key, now), "backend",
                              secret_key)
    /\ lastGet' = NoGet
    /\ UNCHANGED <<chatVars, now, ticks, heap, cache, req, users, paints, searchVars>>

ServiceAuthNext ==
    \/ \E path \in Paths, header \in Headers : Dispatch(path, header)
    \/ \E secret_key \in Secrets : BackendChat(secret_key)
    \/ \E d \in TimeSteps : Tick(d)

SpecServiceAuth == CtxFullInit /\ [][ServiceAuthNext]_vars

\* C28: AuthMiddleware passes a request for a non-public path to its handler
\* only if the Authorization header carries a bearer token that verifies under
\* the orchestrator's key, is unexpired, has token_type "service" and lists the
\* permission the path requires ("chat" for paths containing /chat); and the
\* token the backend creates with AIAuthService passes for the chat path when
\* both sides use the same secret.
C28_ServiceTokenGate ==
    /\ (resp.op = "dispatch" /\ resp.passed /\ ~IsPublicEndpoint(resp.path)) =>
          /\ resp.header.scheme = "Bearer"
          /\ resp.header.token.secret = JwtSecretKey
          /\ resp.header.token.exp # NoExp /\ resp.header.token.exp > now
          /\ resp.header.token.token_type = "service"
          /\ GetRequiredPermission(resp.path) \in resp.header.token.permissions
          /\ PathContains(resp.path, "/chat") =>
                "chat" \in resp.header.token.permissions
    /\ (resp.op = "dispatch" /\ resp.origin = "backend"
           /\ resp.secret_key = JwtSecretKey) => resp.passed

\* C28 witness: after time has passed the backend, holding the orchestrator's
\* key, called the chat path and its request was passed to the handler.
C28_Witness ==
    /\ resp.op = "dispatch" /\ resp.origin = "backend" /\ resp.passed
    /\ resp.path = ChatPath /\ resp.secret_key = JwtSecretKey
    /\ resp.header.token.exp = now + ServiceTokenLifetime
    /\ now > 0

====
